---- MODULE Spec2Model ----
(***************************************************************************)
(* The WebSocket hub of go-backend/pkg/utils/socket.go: the directory of   *)
(* online clients, the hub loop (Hub.Run) with its register, unregister    *)
(* and broadcast cases, sendOnlineUsers, the WebSocketHandler with its     *)
(* read goroutine, and the SendMessage handler that calls EmitNewMessage.  *)
(*                                                                         *)
(* The three hub queues are unbuffered Go channels: a sender stays blocked *)
(* at its send statement until the hub loop receives, so a pending request *)
(* is a goroutine whose position is the send statement.                    *)
(***************************************************************************)
EXTENDS Naturals, Sequences, FiniteSets

\* ---------------------------------------------------------------- bounds
NumUsers == 2
MaxConns == 3
MaxMsgs == 1

Identities == 1..NumUsers
Conns == 1..MaxConns
MsgIds == 1..MaxMsgs

NoUser == 0

\* primitive.ObjectID.Hex(): an injective rendering of an identity
HexDigits == <<"a1", "b2", "c3", "d4", "e5", "f6">>
Hex(u) == HexDigits[u]

Texts == {"", "hi"}
Images == {"", "b64"}

\* the WebSockets and the message handlers the browser side creates
MaxSockets == 3
MaxHandlers == 3
MaxEvents == 2
Sockets == 1..MaxSockets
Handlers == 1..MaxHandlers
NoSocket == 0
NoHandler == 0
NoReq == [case |-> "none", arg |-> 0]

VARIABLES
    clients,     \* h.clients: the map userID -> *Client, as a set of <<key, client>> entries
    pc,          \* position of the handler / read goroutine of each upgrade request
    UserID,      \* Client.UserID of the client built by each request
    connClosed,  \* Conn.Close() has been called on the client's connection
    peerGone,    \* the peer closed the channel or the transport failed
    readErr,     \* the err of the last ReadMessage call of each read goroutine
    unregSends,  \* sends on hub.unregister performed by each read goroutine
    msgPc,       \* position of each SendMessage request
    message,     \* newMessage built by each SendMessage request
    stored,      \* documents of the messages collection
    started,     \* per upgrade request: sends on hub.register made, read goroutines started
    delivered,   \* the newMessage events written successfully, in the order of the writes
    exited,      \* main has returned after the shutdown signal
    mapAccess,   \* the accesses to h.clients made in the step that led here
    currentHub,  \* the package variable currentHub: "nil" or "hub"
    hubPc,       \* position of the goroutine Hub.Run inside its loop
    hubReq,      \* the value Hub.Run received from a channel and is processing
    mu,          \* h.mu is held
    authUser,    \* useAuthStore: authUser (NoUser for null)
    socket,      \* useAuthStore: socket (NoSocket for null)
    onlineUsers, \* useAuthStore: onlineUsers
    readyState,  \* readyState of each WebSocket the store created ("none" before)
    listeners,   \* the "message" listeners the chat store added to each WebSocket
    selectedUser,    \* useChatStore: selectedUser (NoUser for null)
    messageHandler,  \* useChatStore: _messageHandler (NoHandler for null)
    messages,    \* useChatStore: messages, as the ids of the appended events
    lastOp       \* the case Hub.Run processed in the step that led here (its request, the map
                 \* before it, its WriteMessage calls, the connections it closed); NoOp after
                 \* a step of any other goroutine

\* the hub goroutine and the package variable
hubVars == <<currentHub, hubPc, hubReq, mu>>

\* the browser side: the two stores and the WebSockets
clientVars == <<authUser, socket, onlineUsers, readyState, listeners,
                selectedUser, messageHandler, messages>>

vars == <<clients, pc, UserID, connClosed, peerGone, readErr, unregSends,
          msgPc, message, stored, started, delivered, exited, mapAccess, lastOp,
          hubVars, clientVars>>

\* ------------------------------------------------------------- Go map
MapHas(m, k) == \E e \in m : e[1] = k
MapGet(m, k) == (CHOOSE e \in m : e[1] = k)[2]
MapDelete(m, k) == {e \in m : e[1] # k}
\* an insert that does not overwrite the entry of the key
MapSetKeepOld(m, k, v) == m \cup {<<k, v>>}
MapSet(m, k, v) == {e \in m : e[1] # k} \cup {<<k, v>>}
MapValues(m) == {e[2] : e \in m}

\* ------------------------------------------------------------- events
WebSocketMessage(event, payload) == [Event |-> event, Payload |-> payload]

\* Conn.WriteMessage: fails on a connection that was closed or whose peer is gone
WriteMessage(c) == ~connClosed[c] /\ ~peerGone[c]

WriteCall(c, ev) == [conn |-> c, msg |-> ev, ok |-> WriteMessage(c)]

\* the slice onlineUserIDs: one Hex string per map entry, as a bag (string -> count);
\* the order of a Go map range is unspecified and is abstracted away
OnlineUserIDs(m) ==
    [h \in {Hex(e[1]) : e \in m} |-> Cardinality({e \in m : Hex(e[1]) = h})]

RECURSIVE WriteAll(_, _)
WriteAll(entries, ev) ==
    IF entries = {} THEN <<>>
    ELSE LET e == CHOOSE x \in entries : \A y \in entries : x[2] <= y[2]
         IN  <<WriteCall(e[2], ev)>> \o WriteAll(entries \ {e}, ev)

\* a broadcast that returns at the first failed write
sendOnlineUsersAbort(m) ==
    LET w == WriteAll(m, WebSocketMessage("getOnlineUsers", OnlineUserIDs(m)))
        bad == {k \in DOMAIN w : ~w[k].ok}
    IN  IF bad = {} THEN w
        ELSE SubSeq(w, 1, CHOOSE k \in bad : \A j \in bad : k <= j)

\* Hub.sendOnlineUsers: one write of the getOnlineUsers event per map entry;
\* a failed write is logged and the loop goes on
sendOnlineUsers(m) ==
    WriteAll(m, WebSocketMessage("getOnlineUsers", OnlineUserIDs(m)))

\* the writes of one hub case that reached the peer, as entries of the delivery log
Delivered(writes, id) ==
    LET ok == SelectSeq(writes, LAMBDA w : w.ok)
    IN  [k \in 1..Len(ok) |-> [conn |-> ok[k].conn, id |-> id]]

\* One access to the map h.clients: the goroutine that makes it, what it does, and
\* whether h.mu is held. All of them are in Hub.Run and Hub.sendOnlineUsers.
MapAccess(op, locked) == [by |-> "hub", op |-> op, locked |-> locked]

\* sendOnlineUsers: len and two ranges under the lock
SendOnlineUsersAccesses ==
    <<MapAccess("len", TRUE), MapAccess("range", TRUE), MapAccess("range", TRUE)>>

\* register case: the store under the lock, sendOnlineUsers, len in the log line
RegisterAccesses ==
    <<MapAccess("store", TRUE)>> \o SendOnlineUsersAccesses \o <<MapAccess("len", FALSE)>>

\* unregister case: the lookup and, if found, the delete under the lock,
\* sendOnlineUsers, len in the log line
UnregisterAccesses(ok) ==
    <<MapAccess("lookup", TRUE)>>
        \o (IF ok THEN <<MapAccess("delete", TRUE)>> ELSE <<>>)
        \o SendOnlineUsersAccesses \o <<MapAccess("len", FALSE)>>

\* broadcast case: the lookup under the lock
BroadcastAccesses == <<MapAccess("lookup", TRUE)>>

NoOp == [case |-> "none", arg |-> 0, pre |-> {}, writes |-> <<>>, closed |-> {}]

\* Identities are opaque keys: a request carries either an identity seen before or
\* the least one not seen yet (the same behaviours up to renaming identities)
SeenIdentities ==
    {UserID[c] : c \in Conns} \cup
    UNION {{message[i].SenderID, message[i].ReceiverID} : i \in {j \in DOMAIN message : message[j] # <<>>}}

NextIdentities(seen) ==
    {u \in Identities : u \in seen \/ \A v \in Identities : v < u => v \in seen}

\* ---------------------------------------------------------------- Init
\* main.go: InitWebSocketHub has returned before the server accepts a request
HubRunning ==
    /\ currentHub = "hub"
    /\ hubPc = "select"
    /\ hubReq = NoReq
    /\ mu = FALSE

\* the stores as created: no user, no socket, no chat selected
ClientIdle ==
    /\ authUser = NoUser
    /\ socket = NoSocket
    /\ onlineUsers = <<>>
    /\ readyState = [s \in Sockets |-> "none"]
    /\ listeners = [s \in Sockets |-> {}]
    /\ selectedUser = NoUser
    /\ messageHandler = NoHandler
    /\ messages = <<>>

Init ==
    /\ clients = {}
    /\ pc = [c \in Conns |-> "new"]
    /\ UserID = [c \in Conns |-> NoUser]
    /\ connClosed = [c \in Conns |-> FALSE]
    /\ peerGone = [c \in Conns |-> FALSE]
    /\ readErr = [c \in Conns |-> "none"]
    /\ unregSends = [c \in Conns |-> 0]
    /\ msgPc = [m \in MsgIds |-> "new"]
    /\ message = [m \in MsgIds |-> <<>>]
    /\ stored = {}
    /\ started = [c \in Conns |-> [registers |-> 0, readLoops |-> 0]]
    /\ delivered = <<>>
    /\ exited = FALSE
    /\ mapAccess = <<>>
    /\ HubRunning
    /\ ClientIdle
    /\ lastOp = NoOp

\* ------------------------------------------------------ WebSocketHandler
\* a handler without the check of the "user" key: the zero identity is registered
WebSocketHandlerOnNoUserCheck(c, user, upgradeOk) ==
    /\ pc[c] = "new"
    /\ IF ~upgradeOk
       THEN /\ pc' = [pc EXCEPT ![c] = "upgradeFailed"]
            /\ UNCHANGED <<UserID, started>>
       ELSE /\ pc' = [pc EXCEPT ![c] = "register"]
            /\ UserID' = [UserID EXCEPT ![c] = user]
            /\ started' = [started EXCEPT ![c].registers = @ + 1]
    /\ UNCHANGED <<clients, connClosed, peerGone, readErr, unregSends,
                   msgPc, message, stored, delivered>>
    /\ lastOp' = NoOp
    /\ UNCHANGED exited
    /\ mapAccess' = <<>>
    /\ UNCHANGED <<hubVars, clientVars>>

\* a handler that goes on with the connection of a failed upgrade
WebSocketHandlerOnIgnoreUpgradeErr(c, user, upgradeOk) ==
    /\ pc[c] = "new"
    /\ IF user = NoUser
       THEN /\ pc' = [pc EXCEPT ![c] = "unauthorized"]
            /\ UNCHANGED <<UserID, started>>
       ELSE /\ pc' = [pc EXCEPT ![c] = "register"]
            /\ UserID' = [UserID EXCEPT ![c] = user]
            /\ started' = [started EXCEPT ![c].registers = @ + 1]
    /\ UNCHANGED <<clients, connClosed, peerGone, readErr, unregSends,
                   msgPc, message, stored, delivered>>
    /\ lastOp' = NoOp
    /\ UNCHANGED exited
    /\ mapAccess' = <<>>
    /\ UNCHANGED <<hubVars, clientVars>>

\* a handler that starts the read goroutine and never sends on hub.register
WebSocketHandlerOnNoRegister(c, user, upgradeOk) ==
    /\ pc[c] = "new"
    /\ IF user = NoUser
       THEN /\ pc' = [pc EXCEPT ![c] = "unauthorized"]
            /\ UNCHANGED <<UserID, started>>
       ELSE IF ~upgradeOk
       THEN /\ pc' = [pc EXCEPT ![c] = "upgradeFailed"]
            /\ UNCHANGED <<UserID, started>>
       ELSE /\ pc' = [pc EXCEPT ![c] = "read"]
            /\ UserID' = [UserID EXCEPT ![c] = user]
            /\ started' = [started EXCEPT ![c].readLoops = @ + 1]
    /\ UNCHANGED <<clients, connClosed, peerGone, readErr, unregSends,
                   msgPc, message, stored, delivered>>
    /\ lastOp' = NoOp
    /\ UNCHANGED exited
    /\ mapAccess' = <<>>
    /\ UNCHANGED <<hubVars, clientVars>>

\* a handler that logs the number of clients of the hub
WebSocketHandlerOnLogsClients(c, user, upgradeOk) ==
    /\ pc[c] = "new"
    /\ IF user = NoUser
       THEN /\ pc' = [pc EXCEPT ![c] = "unauthorized"]
            /\ UNCHANGED <<UserID, started>>
       ELSE IF ~upgradeOk
       THEN /\ pc' = [pc EXCEPT ![c] = "upgradeFailed"]
            /\ UNCHANGED <<UserID, started>>
       ELSE /\ pc' = [pc EXCEPT ![c] = "register"]
            /\ UserID' = [UserID EXCEPT ![c] = user]
            /\ started' = [started EXCEPT ![c].registers = @ + 1]
    /\ UNCHANGED <<clients, connClosed, peerGone, readErr, unregSends,
                   msgPc, message, stored, delivered>>
    /\ lastOp' = NoOp
    /\ UNCHANGED exited
    /\ mapAccess' = <<[by |-> "handler", op |-> "len", locked |-> FALSE]>>
    /\ UNCHANGED <<hubVars, clientVars>>

\* a handler that starts the read goroutine at once and leaves the register send
\* to a goroutine of its own
WebSocketHandlerOnGoRegister(c, user, upgradeOk) ==
    /\ pc[c] = "new"
    /\ IF user = NoUser
       THEN /\ pc' = [pc EXCEPT ![c] = "unauthorized"]
            /\ UNCHANGED <<UserID, started>>
       ELSE IF ~upgradeOk
       THEN /\ pc' = [pc EXCEPT ![c] = "upgradeFailed"]
            /\ UNCHANGED <<UserID, started>>
       ELSE /\ pc' = [pc EXCEPT ![c] = "read"]
            /\ UserID' = [UserID EXCEPT ![c] = user]
            /\ started' = [started EXCEPT ![c] = [registers |-> @.registers + 1,
                                                  readLoops |-> @.readLoops + 1]]
    /\ UNCHANGED <<clients, connClosed, peerGone, readErr, unregSends,
                   msgPc, message, stored, delivered>>
    /\ lastOp' = NoOp
    /\ UNCHANGED exited
    /\ mapAccess' = <<>>
    /\ UNCHANGED <<hubVars, clientVars>>

\* The handler on a request whose context holds `user` (NoUser: no "user" key) and
\* whose upgrade succeeds or fails: c.Get("user"), upgrader.Upgrade, then the
\* blocking send on hub.register
WebSocketHandlerOn(c, user, upgradeOk) ==
    /\ pc[c] = "new"
    /\ IF user = NoUser
       THEN /\ pc' = [pc EXCEPT ![c] = "unauthorized"]
            /\ UNCHANGED <<UserID, started>>
       ELSE IF ~upgradeOk
       THEN /\ pc' = [pc EXCEPT ![c] = "upgradeFailed"]
            /\ UNCHANGED <<UserID, started>>
       ELSE /\ pc' = [pc EXCEPT ![c] = "register"]
            /\ UserID' = [UserID EXCEPT ![c] = user]
            /\ started' = [started EXCEPT ![c].registers = @ + 1]
    /\ UNCHANGED <<clients, connClosed, peerGone, readErr, unregSends,
                   msgPc, message, stored, delivered>>
    /\ lastOp' = NoOp
    /\ UNCHANGED exited
    /\ mapAccess' = <<>>
    /\ UNCHANGED <<hubVars, clientVars>>

\* The jwt cookie of a request: none, or a token with the user ID in its claims
\* that is or is not valid (signature, signing method, expiry)
NoToken == [UserID |-> NoUser, valid |-> FALSE]

Tokens(ids) == {NoToken} \cup [UserID : ids, valid : BOOLEAN]

\* a middleware that reads the claims without verifying the token
AuthMiddlewareNoVerify(token, userFound) ==
    IF token = NoToken \/ ~userFound THEN NoUser ELSE token.UserID

\* AuthMiddleware: the user it sets in the context, the one whose _id is the user
\* ID of the claims of a valid token; NoUser when it aborts the request (no cookie,
\* invalid or expired token, user not found)
AuthMiddleware(token, userFound) ==
    IF token = NoToken \/ ~token.valid \/ ~userFound THEN NoUser ELSE token.UserID

\* GET /ws: AuthMiddleware, then WebSocketHandler. A request the middleware aborts
\* never reaches the handler; it is answered and changes nothing, as the handler's
\* own 401 does.
WebSocketRoute(c, token, userFound, upgradeOk) ==
    WebSocketHandlerOn(c, AuthMiddleware(token, userFound), upgradeOk)

WebSocketHandler(c) ==
    /\ pc[c] = "new"
    /\ \A d \in Conns : d < c => pc[d] # "new"
    /\ \E token \in Tokens(NextIdentities(SeenIdentities)),
          userFound \in BOOLEAN, upgradeOk \in BOOLEAN :
          WebSocketRoute(c, token, userFound, upgradeOk)

\* the peer closes the channel or the transport breaks
PeerClose(c) ==
    /\ pc[c] \in {"register", "read"}
    /\ ~peerGone[c]
    /\ peerGone' = [peerGone EXCEPT ![c] = TRUE]
    /\ UNCHANGED <<clients, pc, UserID, connClosed, readErr, unregSends,
                   msgPc, message, stored,
                   started, delivered>>
    /\ lastOp' = NoOp
    /\ UNCHANGED exited
    /\ mapAccess' = <<>>
    /\ UNCHANGED <<hubVars, clientVars>>

\* a read loop that leaves on any return of ReadMessage, error or not
ReadMessageUnregisterOnAny(c) ==
    /\ pc[c] = "read"
    /\ readErr' = [readErr EXCEPT ![c] = IF connClosed[c] \/ peerGone[c] THEN "err" ELSE "nil"]
    /\ pc' = [pc EXCEPT ![c] = "unregister"]
    /\ unregSends' = [unregSends EXCEPT ![c] = @ + 1]
    /\ UNCHANGED <<clients, UserID, connClosed, peerGone,
                   msgPc, message, stored,
                   started, delivered>>
    /\ lastOp' = NoOp
    /\ UNCHANGED exited
    /\ mapAccess' = <<>>
    /\ UNCHANGED <<hubVars, clientVars>>

\* one iteration of the read loop: a payload that was read is dropped; an error
\* breaks the loop and the deferred function starts its send on hub.unregister
ReadMessage(c) ==
    /\ pc[c] = "read"
    /\ IF connClosed[c] \/ peerGone[c]
       THEN /\ readErr' = [readErr EXCEPT ![c] = "err"]
            /\ pc' = [pc EXCEPT ![c] = "unregister"]
            /\ unregSends' = [unregSends EXCEPT ![c] = @ + 1]
       ELSE /\ readErr' = [readErr EXCEPT ![c] = "nil"]
            /\ UNCHANGED <<pc, unregSends>>
    /\ UNCHANGED <<clients, UserID, connClosed, peerGone,
                   msgPc, message, stored,
                   started, delivered>>
    /\ lastOp' = NoOp
    /\ UNCHANGED exited
    /\ mapAccess' = <<>>
    /\ UNCHANGED <<hubVars, clientVars>>

\* the deferred conn.Close() of the read goroutine, after its send was received
ConnClose(c) ==
    /\ pc[c] = "close"
    /\ connClosed' = [connClosed EXCEPT ![c] = TRUE]
    /\ pc' = [pc EXCEPT ![c] = "done"]
    /\ UNCHANGED <<clients, UserID, peerGone, readErr, unregSends,
                   msgPc, message, stored,
                   started, delivered>>
    /\ lastOp' = NoOp
    /\ UNCHANGED exited
    /\ mapAccess' = <<>>
    /\ UNCHANGED <<hubVars, clientVars>>

\* ---------------------------------------------------------------- Hub.Run
\* a register case that notifies before it inserts
RegisterCaseNotifyFirst(c) ==
    /\ pc[c] = "register"
    /\ clients' = MapSet(clients, UserID[c], c)
    /\ lastOp' = [case |-> "register", arg |-> c, pre |-> clients,
                  writes |-> sendOnlineUsers(clients), closed |-> {}]
    /\ pc' = [pc EXCEPT ![c] = "read"]
    /\ UNCHANGED <<UserID, connClosed, peerGone, readErr, unregSends,
                   msgPc, message, stored>>
    /\ started' = [started EXCEPT ![c].readLoops = @ + 1]
    /\ UNCHANGED delivered
    /\ UNCHANGED exited
    /\ mapAccess' = RegisterAccesses
    /\ UNCHANGED <<hubVars, clientVars>>

\* a register case that sends the list to the new client only
RegisterCaseNotifyNewOnly(c) ==
    /\ pc[c] = "register"
    /\ LET m == MapSet(clients, UserID[c], c)
       IN  /\ clients' = m
           /\ lastOp' = [case |-> "register", arg |-> c, pre |-> clients,
                         writes |-> <<WriteCall(c, WebSocketMessage("getOnlineUsers",
                                                                    OnlineUserIDs(m)))>>,
                         closed |-> {}]
    /\ pc' = [pc EXCEPT ![c] = "read"]
    /\ UNCHANGED <<UserID, connClosed, peerGone, readErr, unregSends,
                   msgPc, message, stored>>
    /\ started' = [started EXCEPT ![c].readLoops = @ + 1]
    /\ UNCHANGED delivered
    /\ UNCHANGED exited
    /\ mapAccess' = RegisterAccesses
    /\ UNCHANGED <<hubVars, clientVars>>

\* a register case whose broadcast deletes the entries whose write failed
RegisterCasePruneOnFailure(c) ==
    /\ pc[c] = "register"
    /\ LET m == MapSet(clients, UserID[c], c)
       IN  /\ clients' = {e \in m : WriteMessage(e[2])}
           /\ lastOp' = [case |-> "register", arg |-> c, pre |-> clients,
                         writes |-> sendOnlineUsers(m), closed |-> {}]
    /\ pc' = [pc EXCEPT ![c] = "read"]
    /\ UNCHANGED <<UserID, connClosed, peerGone, readErr, unregSends,
                   msgPc, message, stored>>
    /\ started' = [started EXCEPT ![c].readLoops = @ + 1]
    /\ UNCHANGED delivered
    /\ UNCHANGED exited
    /\ mapAccess' = RegisterAccesses
    /\ UNCHANGED <<hubVars, clientVars>>

\* a register case that builds the list before it stores the new client and writes
\* it to the clients it finds after the store
RegisterCaseTornBroadcast(c) ==
    /\ pc[c] = "register"
    /\ LET m == MapSet(clients, UserID[c], c)
       IN  /\ clients' = m
           /\ lastOp' = [case |-> "register", arg |-> c, pre |-> clients,
                         writes |-> WriteAll(m, WebSocketMessage("getOnlineUsers",
                                                                 OnlineUserIDs(clients))),
                         closed |-> {}]
    /\ pc' = [pc EXCEPT ![c] = "read"]
    /\ UNCHANGED <<UserID, connClosed, peerGone, readErr, unregSends,
                   msgPc, message, stored>>
    /\ started' = [started EXCEPT ![c].readLoops = @ + 1]
    /\ UNCHANGED delivered
    /\ UNCHANGED exited
    /\ mapAccess' = RegisterAccesses
    /\ UNCHANGED <<hubVars, clientVars>>

\* a register case that, on a replacement, closes the new connection for the old one
RegisterCaseCloseNew(c) ==
    /\ pc[c] = "register"
    /\ LET m == MapSet(clients, UserID[c], c)
           replaces == MapHas(clients, UserID[c])
       IN  /\ clients' = m
           /\ connClosed' = IF replaces THEN [connClosed EXCEPT ![c] = TRUE] ELSE connClosed
           /\ lastOp' = [case |-> "register", arg |-> c, pre |-> clients,
                         writes |-> sendOnlineUsers(m),
                         closed |-> IF replaces THEN {c} ELSE {}]
    /\ pc' = [pc EXCEPT ![c] = "read"]
    /\ UNCHANGED <<UserID, peerGone, readErr, unregSends, msgPc, message, stored>>
    /\ started' = [started EXCEPT ![c].readLoops = @ + 1]
    /\ UNCHANGED delivered
    /\ UNCHANGED exited
    /\ mapAccess' = RegisterAccesses
    /\ UNCHANGED <<hubVars, clientVars>>

\* case client := <-h.register
RegisterCase(c) ==
    /\ pc[c] = "register"
    /\ LET m == MapSet(clients, UserID[c], c)
       IN  /\ clients' = m
           /\ lastOp' = [case |-> "register", arg |-> c, pre |-> clients,
                         writes |-> sendOnlineUsers(m), closed |-> {}]
    /\ pc' = [pc EXCEPT ![c] = "read"]
    /\ UNCHANGED <<UserID, connClosed, peerGone, readErr, unregSends,
                   msgPc, message, stored>>
    /\ started' = [started EXCEPT ![c].readLoops = @ + 1]
    /\ UNCHANGED delivered
    /\ UNCHANGED exited
    /\ mapAccess' = RegisterAccesses
    /\ UNCHANGED <<hubVars, clientVars>>

\* an unregister case that notifies before it deletes
UnregisterCaseNotifyFirst(c) ==
    /\ pc[c] = "unregister"
    /\ LET ok == MapHas(clients, UserID[c])
       IN  /\ clients' = IF ok THEN MapDelete(clients, UserID[c]) ELSE clients
           /\ connClosed' = IF ok THEN [connClosed EXCEPT ![c] = TRUE] ELSE connClosed
           /\ lastOp' = [case |-> "unregister", arg |-> c, pre |-> clients,
                         writes |-> sendOnlineUsers(clients),
                         closed |-> IF ok THEN {c} ELSE {}]
    /\ pc' = [pc EXCEPT ![c] = "close"]
    /\ UNCHANGED <<UserID, peerGone, readErr, unregSends, msgPc, message, stored,
                   started, delivered>>
    /\ UNCHANGED exited
    /\ mapAccess' = UnregisterAccesses(MapHas(clients, UserID[c]))
    /\ UNCHANGED <<hubVars, clientVars>>

\* an unregister case that closes the connection and leaves its entry in the map
UnregisterCaseKeepEntry(c) ==
    /\ pc[c] = "unregister"
    /\ LET ok == MapHas(clients, UserID[c])
       IN  /\ clients' = clients
           /\ connClosed' = IF ok THEN [connClosed EXCEPT ![c] = TRUE] ELSE connClosed
           /\ lastOp' = [case |-> "unregister", arg |-> c, pre |-> clients,
                         writes |-> sendOnlineUsers(clients'),
                         closed |-> IF ok THEN {c} ELSE {}]
    /\ pc' = [pc EXCEPT ![c] = "close"]
    /\ UNCHANGED <<UserID, peerGone, readErr, unregSends, msgPc, message, stored,
                   started, delivered>>
    /\ UNCHANGED exited
    /\ mapAccess' = UnregisterAccesses(MapHas(clients, UserID[c]))
    /\ UNCHANGED <<hubVars, clientVars>>

\* an unregister case that deletes and closes and sends no list
UnregisterCaseNoNotify(c) ==
    /\ pc[c] = "unregister"
    /\ LET ok == MapHas(clients, UserID[c])
           m == IF ok THEN MapDelete(clients, UserID[c]) ELSE clients
       IN  /\ clients' = m
           /\ connClosed' = IF ok THEN [connClosed EXCEPT ![c] = TRUE] ELSE connClosed
           /\ lastOp' = [case |-> "unregister", arg |-> c, pre |-> clients,
                         writes |-> <<>>,
                         closed |-> IF ok THEN {c} ELSE {}]
    /\ pc' = [pc EXCEPT ![c] = "close"]
    /\ UNCHANGED <<UserID, peerGone, readErr, unregSends, msgPc, message, stored,
                   started, delivered>>
    /\ UNCHANGED exited
    /\ mapAccess' = UnregisterAccesses(MapHas(clients, UserID[c]))
    /\ UNCHANGED <<hubVars, clientVars>>

\* case client := <-h.unregister
UnregisterCase(c) ==
    /\ pc[c] = "unregister"
    /\ LET ok == MapHas(clients, UserID[c])
           m == IF ok THEN MapDelete(clients, UserID[c]) ELSE clients
       IN  /\ clients' = m
           /\ connClosed' = IF ok THEN [connClosed EXCEPT ![c] = TRUE] ELSE connClosed
           /\ lastOp' = [case |-> "unregister", arg |-> c, pre |-> clients,
                         writes |-> sendOnlineUsers(m),
                         closed |-> IF ok THEN {c} ELSE {}]
    /\ pc' = [pc EXCEPT ![c] = "close"]
    /\ UNCHANGED <<UserID, peerGone, readErr, unregSends, msgPc, message, stored,
                   started, delivered>>
    /\ UNCHANGED exited
    /\ mapAccess' = UnregisterAccesses(MapHas(clients, UserID[c]))
    /\ UNCHANGED <<hubVars, clientVars>>

\* a broadcast case that writes the message to every client
BroadcastCaseToAll(i) ==
    /\ msgPc[i] = "emit"
    /\ lastOp' = [case |-> "broadcast", arg |-> i, pre |-> clients,
                  writes |-> WriteAll(clients, WebSocketMessage("newMessage", message[i])),
                  closed |-> {}]
    /\ msgPc' = [msgPc EXCEPT ![i] = "created"]
    /\ UNCHANGED <<clients, pc, UserID, connClosed, peerGone, readErr, unregSends,
                   message, stored>>
    /\ delivered' = delivered \o Delivered(lastOp'.writes, message[i].ID)
    /\ UNCHANGED started
    /\ UNCHANGED exited
    /\ mapAccess' = BroadcastAccesses
    /\ UNCHANGED <<hubVars, clientVars>>

\* a broadcast case whose lookup leaves an entry behind for a receiver it misses
BroadcastCasePhantom(i) ==
    /\ msgPc[i] = "emit"
    /\ LET ok == MapHas(clients, message[i].ReceiverID)
       IN  /\ lastOp' = [case |-> "broadcast", arg |-> i, pre |-> clients,
                         writes |-> IF ok
                                    THEN <<WriteCall(MapGet(clients, message[i].ReceiverID),
                                                     WebSocketMessage("newMessage", message[i]))>>
                                    ELSE <<>>,
                         closed |-> {}]
           /\ clients' = IF ok THEN clients
                         ELSE MapSet(clients, message[i].ReceiverID, NoUser)
    /\ msgPc' = [msgPc EXCEPT ![i] = "created"]
    /\ UNCHANGED <<pc, UserID, connClosed, peerGone, readErr, unregSends,
                   message, stored>>
    /\ delivered' = delivered \o Delivered(lastOp'.writes, message[i].ID)
    /\ UNCHANGED started
    /\ UNCHANGED exited
    /\ mapAccess' = BroadcastAccesses
    /\ UNCHANGED <<hubVars, clientVars>>

\* a broadcast case that reports a missing receiver or a failed write to the sender
BroadcastCaseSurfaceFailure(i) ==
    /\ msgPc[i] = "emit"
    /\ LET ok == MapHas(clients, message[i].ReceiverID)
       IN  lastOp' = [case |-> "broadcast", arg |-> i, pre |-> clients,
                      writes |-> IF ok
                                 THEN <<WriteCall(MapGet(clients, message[i].ReceiverID),
                                                  WebSocketMessage("newMessage", message[i]))>>
                                 ELSE <<>>,
                      closed |-> {}]
    /\ msgPc' = [msgPc EXCEPT ![i] =
                    IF lastOp'.writes # <<>> /\ lastOp'.writes[1].ok
                    THEN "created" ELSE "status500"]
    /\ UNCHANGED <<clients, pc, UserID, connClosed, peerGone, readErr, unregSends,
                   message, stored>>
    /\ delivered' = delivered \o Delivered(lastOp'.writes, message[i].ID)
    /\ UNCHANGED started
    /\ UNCHANGED exited
    /\ mapAccess' = BroadcastAccesses
    /\ UNCHANGED <<hubVars, clientVars>>

\* a broadcast case that deletes the entry of a receiver whose write failed
BroadcastCaseDropOnFailure(i) ==
    /\ msgPc[i] = "emit"
    /\ LET ok == MapHas(clients, message[i].ReceiverID)
       IN  /\ lastOp' = [case |-> "broadcast", arg |-> i, pre |-> clients,
                         writes |-> IF ok
                                    THEN <<WriteCall(MapGet(clients, message[i].ReceiverID),
                                                     WebSocketMessage("newMessage", message[i]))>>
                                    ELSE <<>>,
                         closed |-> {}]
           /\ clients' = IF ok /\ ~WriteMessage(MapGet(clients, message[i].ReceiverID))
                         THEN MapDelete(clients, message[i].ReceiverID)
                         ELSE clients
    /\ msgPc' = [msgPc EXCEPT ![i] = "created"]
    /\ UNCHANGED <<pc, UserID, connClosed, peerGone, readErr, unregSends,
                   message, stored>>
    /\ delivered' = delivered \o Delivered(lastOp'.writes, message[i].ID)
    /\ UNCHANGED started
    /\ UNCHANGED exited
    /\ mapAccess' = BroadcastAccesses
    /\ UNCHANGED <<hubVars, clientVars>>

\* case message := <-h.broadcast
BroadcastCase(i) ==
    /\ msgPc[i] = "emit"
    /\ LET ok == MapHas(clients, message[i].ReceiverID)
       IN  lastOp' = [case |-> "broadcast", arg |-> i, pre |-> clients,
                      writes |-> IF ok
                                 THEN <<WriteCall(MapGet(clients, message[i].ReceiverID),
                                                  WebSocketMessage("newMessage", message[i]))>>
                                 ELSE <<>>,
                      closed |-> {}]
    /\ msgPc' = [msgPc EXCEPT ![i] = "created"]
    /\ UNCHANGED <<clients, pc, UserID, connClosed, peerGone, readErr, unregSends,
                   message, stored>>
    /\ delivered' = delivered \o Delivered(lastOp'.writes, message[i].ID)
    /\ UNCHANGED started
    /\ UNCHANGED exited
    /\ mapAccess' = BroadcastAccesses
    /\ UNCHANGED <<hubVars, clientVars>>

\* ------------------------------------------------------------ SendMessage
\* CloudinaryService.UploadImage: the secure URL of an uploaded image
UploadImage(image) == "url"

\* a SendMessage that logs a failed insert and goes on to emit the message
SendMessageOnEmitUnstored(i, sender, receiver, bindOk, text, image, uploadOk, insertOk) ==
    /\ msgPc[i] = "new"
    /\ IF receiver = NoUser \/ (sender # NoUser /\ (~bindOk \/ (text = "" /\ image = "")))
       THEN /\ msgPc' = [msgPc EXCEPT ![i] = "status400"]
            /\ UNCHANGED <<message, stored>>
       ELSE IF sender = NoUser \/ (image # "" /\ ~uploadOk)
       THEN /\ msgPc' = [msgPc EXCEPT ![i] = "status500"]
            /\ UNCHANGED <<message, stored>>
       ELSE LET newMessage == [ID |-> i, SenderID |-> sender, ReceiverID |-> receiver,
                               Text |-> text,
                               Image |-> IF image # "" THEN UploadImage(image) ELSE ""]
            IN  /\ msgPc' = [msgPc EXCEPT ![i] = "emit"]
                /\ message' = [message EXCEPT ![i] = newMessage]
                /\ stored' = IF insertOk THEN stored \cup {newMessage} ELSE stored
    /\ UNCHANGED <<clients, pc, UserID, connClosed, peerGone, readErr, unregSends,
                   started, delivered>>
    /\ lastOp' = NoOp
    /\ UNCHANGED exited
    /\ mapAccess' = <<>>
    /\ UNCHANGED <<hubVars, clientVars>>

\* a SendMessage without the test that text or image is given
SendMessageOnNoContentCheck(i, sender, receiver, bindOk, text, image, uploadOk, insertOk) ==
    /\ msgPc[i] = "new"
    /\ IF receiver = NoUser \/ (sender # NoUser /\ ~bindOk)
       THEN /\ msgPc' = [msgPc EXCEPT ![i] = "status400"]
            /\ UNCHANGED <<message, stored>>
       ELSE IF sender = NoUser \/ (image # "" /\ ~uploadOk) \/ ~insertOk
       THEN /\ msgPc' = [msgPc EXCEPT ![i] = "status500"]
            /\ UNCHANGED <<message, stored>>
       ELSE LET newMessage == [ID |-> i, SenderID |-> sender, ReceiverID |-> receiver,
                               Text |-> text,
                               Image |-> IF image # "" THEN UploadImage(image) ELSE ""]
            IN  /\ msgPc' = [msgPc EXCEPT ![i] = "emit"]
                /\ message' = [message EXCEPT ![i] = newMessage]
                /\ stored' = stored \cup {newMessage}
    /\ UNCHANGED <<clients, pc, UserID, connClosed, peerGone, readErr, unregSends,
                   started, delivered>>
    /\ lastOp' = NoOp
    /\ UNCHANGED exited
    /\ mapAccess' = <<>>
    /\ UNCHANGED <<hubVars, clientVars>>

\* a SendMessage that writes the event to the receiver's connection itself, in the
\* goroutine of the request, before it hands the message to the hub
SendMessageOnWriteDirect(i, sender, receiver, bindOk, text, image, uploadOk, insertOk) ==
    /\ msgPc[i] = "new"
    /\ IF receiver = NoUser \/ (sender # NoUser /\ (~bindOk \/ (text = "" /\ image = "")))
       THEN /\ msgPc' = [msgPc EXCEPT ![i] = "status400"]
            /\ lastOp' = NoOp
            /\ UNCHANGED <<message, stored>>
       ELSE IF sender = NoUser \/ (image # "" /\ ~uploadOk) \/ ~insertOk
       THEN /\ msgPc' = [msgPc EXCEPT ![i] = "status500"]
            /\ lastOp' = NoOp
            /\ UNCHANGED <<message, stored>>
       ELSE LET newMessage == [ID |-> i, SenderID |-> sender, ReceiverID |-> receiver,
                               Text |-> text,
                               Image |-> IF image # "" THEN UploadImage(image) ELSE ""]
            IN  /\ msgPc' = [msgPc EXCEPT ![i] = "emit"]
                /\ message' = [message EXCEPT ![i] = newMessage]
                /\ stored' = stored \cup {newMessage}
                /\ lastOp' = [NoOp EXCEPT !.writes =
                                 IF MapHas(clients, receiver)
                                 THEN <<WriteCall(MapGet(clients, receiver),
                                                  WebSocketMessage("newMessage", newMessage))>>
                                 ELSE <<>>]
    /\ UNCHANGED <<clients, pc, UserID, connClosed, peerGone, readErr, unregSends,
                   started, delivered>>
    /\ UNCHANGED exited
    /\ mapAccess' = <<>>
    /\ UNCHANGED <<hubVars, clientVars>>

\* ChatHandler.SendMessage on one request, up to its blocking send in
\* EmitNewMessage: the early returns answer 400 or 500, the insert stores newMessage
SendMessageOn(i, sender, receiver, bindOk, text, image, uploadOk, insertOk) ==
    /\ msgPc[i] = "new"
    /\ IF receiver = NoUser \/ (sender # NoUser /\ (~bindOk \/ (text = "" /\ image = "")))
       THEN /\ msgPc' = [msgPc EXCEPT ![i] = "status400"]
            /\ UNCHANGED <<message, stored>>
       ELSE IF sender = NoUser \/ (image # "" /\ ~uploadOk) \/ ~insertOk
       THEN /\ msgPc' = [msgPc EXCEPT ![i] = "status500"]
            /\ UNCHANGED <<message, stored>>
       ELSE LET newMessage == [ID |-> i, SenderID |-> sender, ReceiverID |-> receiver,
                               Text |-> text,
                               Image |-> IF image # "" THEN UploadImage(image) ELSE ""]
            IN  /\ msgPc' = [msgPc EXCEPT ![i] = "emit"]
                /\ message' = [message EXCEPT ![i] = newMessage]
                /\ stored' = stored \cup {newMessage}
    /\ UNCHANGED <<clients, pc, UserID, connClosed, peerGone, readErr, unregSends,
                   started, delivered>>
    /\ lastOp' = NoOp
    /\ UNCHANGED exited
    /\ mapAccess' = <<>>
    /\ UNCHANGED <<hubVars, clientVars>>

SendMessage(i) ==
    /\ msgPc[i] = "new"
    /\ \A j \in MsgIds : j < i => msgPc[j] # "new"
    /\ \E sender \in NextIdentities(SeenIdentities) \cup {NoUser} :
       \E receiver \in NextIdentities(SeenIdentities \cup {sender}) \cup {NoUser},
          bindOk \in BOOLEAN, text \in Texts, image \in Images,
          uploadOk \in BOOLEAN, insertOk \in BOOLEAN :
          SendMessageOn(i, sender, receiver, bindOk, text, image, uploadOk, insertOk)

\* ------------------------------------------------------------------ Next
Next ==
    \/ \E c \in Conns : WebSocketHandler(c)
    \/ \E c \in Conns : PeerClose(c)
    \/ \E c \in Conns : ReadMessage(c)
    \/ \E c \in Conns : ConnClose(c)
    \/ \E c \in Conns : RegisterCase(c)
    \/ \E c \in Conns : UnregisterCase(c)
    \/ \E i \in MsgIds : BroadcastCase(i)
    \/ \E i \in MsgIds : SendMessage(i)

Spec == Init /\ [][Next]_vars

\* The connection side alone: the upgrade handlers, the read goroutines and the
\* register and unregister cases of the hub loop. SendMessage and the broadcast
\* case read the directory and change none of the variables of this side, so the
\* behaviours of Spec, seen on these variables, are the behaviours of SpecPresence.
NextPresence ==
    \/ \E c \in Conns : WebSocketHandler(c)
    \/ \E c \in Conns : PeerClose(c)
    \/ \E c \in Conns : ReadMessage(c)
    \/ \E c \in Conns : ConnClose(c)
    \/ \E c \in Conns : RegisterCase(c)
    \/ \E c \in Conns : UnregisterCase(c)

SpecPresence == Init /\ [][NextPresence]_vars

\* The hub loop is a goroutine that returns to its select after every case, and a
\* goroutine blocked in a send on hub.unregister is served once the loop receives;
\* the deferred function then runs on to conn.Close(). A read goroutine is scheduled
\* again and again, and ReadMessage returns an error once the channel is broken.
LivePresence ==
    /\ SpecPresence
    /\ \A c \in Conns : /\ WF_vars(ReadMessage(c))
                        /\ WF_vars(UnregisterCase(c))
                        /\ WF_vars(ConnClose(c))

\* ------------------------------------------------- sequential senders
\* One caller, the client of one user, that sends one message after another:
\* MaxMsgs + 1 requests, so that a first and a second message exist
SeqMsgIds == 1..(MaxMsgs + 1)

InitOrder ==
    /\ clients = {}
    /\ pc = [c \in Conns |-> "new"]
    /\ UserID = [c \in Conns |-> NoUser]
    /\ connClosed = [c \in Conns |-> FALSE]
    /\ peerGone = [c \in Conns |-> FALSE]
    /\ readErr = [c \in Conns |-> "none"]
    /\ unregSends = [c \in Conns |-> 0]
    /\ msgPc = [m \in SeqMsgIds |-> "new"]
    /\ message = [m \in SeqMsgIds |-> <<>>]
    /\ stored = {}
    /\ started = [c \in Conns |-> [registers |-> 0, readLoops |-> 0]]
    /\ delivered = <<>>
    /\ exited = FALSE
    /\ mapAccess = <<>>
    /\ HubRunning
    /\ ClientIdle
    /\ lastOp = NoOp

\* a send in its own goroutine: the call is over as soon as it was made
ReturnedAsync(i) == msgPc[i] # "new"

\* SendMessage has returned: it answered 400 or 500, or its send on the unbuffered
\* channel hub.broadcast was received by the hub loop and it answered 201
Returned(i) == msgPc[i] \in {"status400", "status500", "created"}

\* the next call of the sequential caller, with a valid text message to any receiver
SendInOrder(i) ==
    /\ msgPc[i] = "new"
    /\ \A j \in SeqMsgIds : j < i => Returned(j)
    /\ \E sender \in NextIdentities(SeenIdentities) :
       \E receiver \in NextIdentities(SeenIdentities \cup {sender}) :
          /\ \A j \in SeqMsgIds : message[j] # <<>> => sender = message[j].SenderID
          /\ SendMessageOn(i, sender, receiver, TRUE, "hi", "", TRUE, TRUE)

NextOrder ==
    \/ \E c \in Conns : WebSocketHandler(c)
    \/ \E c \in Conns : PeerClose(c)
    \/ \E c \in Conns : ReadMessage(c)
    \/ \E c \in Conns : ConnClose(c)
    \/ \E c \in Conns : RegisterCase(c)
    \/ \E c \in Conns : UnregisterCase(c)
    \/ \E i \in SeqMsgIds : BroadcastCase(i)
    \/ \E i \in SeqMsgIds : SendInOrder(i)

SpecOrder == InitOrder /\ [][NextOrder]_vars

\* ------------------------------------------------------------ shutdown
\* main: the shutdown signal arrives on quit, main logs and returns; nothing else
\* is done
Shutdown ==
    /\ ~exited
    /\ exited' = TRUE
    /\ lastOp' = NoOp
    /\ mapAccess' = <<>>
    /\ UNCHANGED <<clients, pc, UserID, connClosed, peerGone, readErr, unregSends,
                   msgPc, message, stored, started, delivered>>
    /\ UNCHANGED <<hubVars, clientVars>>

\* the connection side up to the return of main, after which no goroutine runs
NextShutdown ==
    \/ ~exited /\ \E c \in Conns : WebSocketHandler(c)
    \/ ~exited /\ \E c \in Conns : PeerClose(c)
    \/ ~exited /\ \E c \in Conns : ReadMessage(c)
    \/ ~exited /\ \E c \in Conns : ConnClose(c)
    \/ ~exited /\ \E c \in Conns : RegisterCase(c)
    \/ ~exited /\ \E c \in Conns : UnregisterCase(c)
    \/ Shutdown

SpecShutdown == Init /\ [][NextShutdown]_vars

\* ---------------------------------------- Hub.Run, one statement at a time
\* The package as its exported functions allow it to be used: EmitNewMessage may
\* be called before InitWebSocketHub, and the hub goroutine takes and releases
\* h.mu in steps of its own.
\* the upgrade requests of this specification
MaxHubConns == 2
HubConns == 1..MaxHubConns

InitHub ==
    /\ clients = {}
    /\ pc = [c \in Conns |-> "new"]
    /\ UserID = [c \in Conns |-> NoUser]
    /\ connClosed = [c \in Conns |-> FALSE]
    /\ peerGone = [c \in Conns |-> FALSE]
    /\ readErr = [c \in Conns |-> "none"]
    /\ unregSends = [c \in Conns |-> 0]
    /\ msgPc = [m \in SeqMsgIds |-> "new"]
    /\ message = [m \in SeqMsgIds |-> <<>>]
    /\ stored = {}
    /\ started = [c \in Conns |-> [registers |-> 0, readLoops |-> 0]]
    /\ delivered = <<>>
    /\ exited = FALSE
    /\ mapAccess = <<>>
    /\ lastOp = NoOp
    /\ currentHub = "nil"
    /\ hubPc = "none"
    /\ hubReq = NoReq
    /\ mu = FALSE
    /\ ClientIdle

\* InitWebSocketHub: currentHub = NewHub(); go currentHub.Run()
InitWebSocketHub ==
    /\ currentHub = "nil"
    /\ currentHub' = "hub"
    /\ hubPc' = "select"
    /\ UNCHANGED <<hubReq, mu>>
    /\ UNCHANGED <<clients, pc, UserID, connClosed, peerGone, readErr, unregSends,
                   msgPc, message, stored, started, delivered, exited>>
    /\ lastOp' = NoOp
    /\ mapAccess' = <<>>
    /\ UNCHANGED clientVars

\* an EmitNewMessage without the nil check
EmitNewMessageOnNoNilCheck(i, msg) ==
    /\ msgPc[i] = "new"
    /\ message' = [message EXCEPT ![i] = msg]
    /\ msgPc' = [msgPc EXCEPT ![i] = "emit"]
    /\ UNCHANGED <<clients, pc, UserID, connClosed, peerGone, readErr, unregSends,
                   stored, started, delivered, exited>>
    /\ lastOp' = NoOp
    /\ mapAccess' = <<>>
    /\ UNCHANGED <<hubVars, clientVars>>

\* EmitNewMessage(message), up to its send on currentHub.broadcast or, with no
\* hub, to its return after the log line
EmitNewMessageOn(i, msg) ==
    /\ msgPc[i] = "new"
    /\ message' = [message EXCEPT ![i] = msg]
    /\ msgPc' = [msgPc EXCEPT ![i] = IF currentHub # "nil" THEN "emit" ELSE "logged"]
    /\ UNCHANGED <<clients, pc, UserID, connClosed, peerGone, readErr, unregSends,
                   stored, started, delivered, exited>>
    /\ lastOp' = NoOp
    /\ mapAccess' = <<>>
    /\ UNCHANGED <<hubVars, clientVars>>

\* the calls arrive in the order of their ids
EmitNewMessage(i) ==
    /\ msgPc[i] = "new"
    /\ \A j \in SeqMsgIds : j < i => msgPc[j] # "new"
    /\ \E receiver \in Identities :
          EmitNewMessageOn(i, [ID |-> i, SenderID |-> 1, ReceiverID |-> receiver,
                               Text |-> "hi", Image |-> ""])

\* the select of Hub.Run takes a client from h.register: the handler's send
\* completes and the handler starts the read goroutine
HubReceiveRegister(c) ==
    /\ hubPc = "select"
    /\ pc[c] = "register"
    /\ hubReq' = [case |-> "register", arg |-> c]
    /\ hubPc' = "lock"
    /\ pc' = [pc EXCEPT ![c] = "read"]
    /\ started' = [started EXCEPT ![c].readLoops = @ + 1]
    /\ UNCHANGED <<currentHub, mu>>
    /\ UNCHANGED <<clients, UserID, connClosed, peerGone, readErr, unregSends,
                   msgPc, message, stored, delivered, exited>>
    /\ lastOp' = NoOp
    /\ mapAccess' = <<>>
    /\ UNCHANGED clientVars

\* the select takes a client from h.unregister: the send in the deferred function
\* of the read goroutine completes
HubReceiveUnregister(c) ==
    /\ hubPc = "select"
    /\ pc[c] = "unregister"
    /\ hubReq' = [case |-> "unregister", arg |-> c]
    /\ hubPc' = "lock"
    /\ pc' = [pc EXCEPT ![c] = "close"]
    /\ UNCHANGED <<currentHub, mu>>
    /\ UNCHANGED <<clients, UserID, connClosed, peerGone, readErr, unregSends,
                   msgPc, message, stored, started, delivered, exited>>
    /\ lastOp' = NoOp
    /\ mapAccess' = <<>>
    /\ UNCHANGED clientVars

\* the select takes a message from h.broadcast: EmitNewMessage returns
HubReceiveBroadcast(i) ==
    /\ hubPc = "select"
    /\ msgPc[i] = "emit"
    /\ hubReq' = [case |-> "broadcast", arg |-> i]
    /\ hubPc' = "lock"
    /\ msgPc' = [msgPc EXCEPT ![i] = "returned"]
    /\ UNCHANGED <<currentHub, mu>>
    /\ UNCHANGED <<clients, pc, UserID, connClosed, peerGone, readErr, unregSends,
                   message, stored, started, delivered, exited>>
    /\ lastOp' = NoOp
    /\ mapAccess' = <<>>
    /\ UNCHANGED clientVars

\* h.mu.Lock() at the head of a case: blocks while the mutex is held
HubLock ==
    /\ hubPc = "lock"
    /\ ~mu
    /\ mu' = TRUE
    /\ hubPc' = "locked"
    /\ UNCHANGED <<currentHub, hubReq>>
    /\ UNCHANGED <<clients, pc, UserID, connClosed, peerGone, readErr, unregSends,
                   msgPc, message, stored, started, delivered, exited>>
    /\ lastOp' = NoOp
    /\ mapAccess' = <<>>
    /\ UNCHANGED clientVars

\* a locked section that goes on to sendOnlineUsers with the mutex held
HubLockedSectionNoUnlock ==
    /\ hubPc = "locked"
    /\ IF hubReq.case = "register"
       THEN /\ clients' = MapSet(clients, UserID[hubReq.arg], hubReq.arg)
            /\ mapAccess' = <<MapAccess("store", TRUE)>>
            /\ hubPc' = "sendOnlineUsers"
            /\ mu' = TRUE
            /\ UNCHANGED <<connClosed, hubReq>>
       ELSE IF hubReq.case = "unregister"
       THEN LET c == hubReq.arg
                ok == MapHas(clients, UserID[c])
            IN  /\ clients' = IF ok THEN MapDelete(clients, UserID[c]) ELSE clients
                /\ connClosed' = IF ok THEN [connClosed EXCEPT ![c] = TRUE] ELSE connClosed
                /\ mapAccess' = <<MapAccess("lookup", TRUE)>>
                                    \o (IF ok THEN <<MapAccess("delete", TRUE)>> ELSE <<>>)
                /\ hubPc' = "sendOnlineUsers"
                /\ mu' = TRUE
                /\ UNCHANGED hubReq
       ELSE LET receiver == message[hubReq.arg].ReceiverID
                ok == MapHas(clients, receiver)
            IN  /\ mapAccess' = <<MapAccess("lookup", TRUE)>>
                /\ hubReq' = IF ok THEN [case |-> "broadcast", arg |-> hubReq.arg,
                                         receiverClient |-> MapGet(clients, receiver)]
                                   ELSE NoReq
                /\ hubPc' = IF ok THEN "write" ELSE "select"
                /\ mu' = FALSE
                /\ UNCHANGED <<clients, connClosed>>
    /\ UNCHANGED currentHub
    /\ UNCHANGED <<pc, UserID, peerGone, readErr, unregSends,
                   msgPc, message, stored, started, delivered, exited>>
    /\ lastOp' = NoOp
    /\ UNCHANGED clientVars

\* the statements of a case between h.mu.Lock() and h.mu.Unlock(), and the Unlock
HubLockedSection ==
    /\ hubPc = "locked"
    /\ mu' = FALSE
    /\ IF hubReq.case = "register"
       THEN /\ clients' = MapSet(clients, UserID[hubReq.arg], hubReq.arg)
            /\ mapAccess' = <<MapAccess("store", TRUE)>>
            /\ hubPc' = "sendOnlineUsers"
            /\ UNCHANGED <<connClosed, hubReq>>
       ELSE IF hubReq.case = "unregister"
       THEN LET c == hubReq.arg
                ok == MapHas(clients, UserID[c])
            IN  /\ clients' = IF ok THEN MapDelete(clients, UserID[c]) ELSE clients
                /\ connClosed' = IF ok THEN [connClosed EXCEPT ![c] = TRUE] ELSE connClosed
                /\ mapAccess' = <<MapAccess("lookup", TRUE)>>
                                    \o (IF ok THEN <<MapAccess("delete", TRUE)>> ELSE <<>>)
                /\ hubPc' = "sendOnlineUsers"
                /\ UNCHANGED hubReq
       ELSE LET receiver == message[hubReq.arg].ReceiverID
                ok == MapHas(clients, receiver)
            IN  /\ mapAccess' = <<MapAccess("lookup", TRUE)>>
                /\ hubReq' = IF ok THEN [case |-> "broadcast", arg |-> hubReq.arg,
                                         receiverClient |-> MapGet(clients, receiver)]
                                   ELSE NoReq
                /\ hubPc' = IF ok THEN "write" ELSE "select"
                /\ UNCHANGED <<clients, connClosed>>
    /\ UNCHANGED currentHub
    /\ UNCHANGED <<pc, UserID, peerGone, readErr, unregSends,
                   msgPc, message, stored, started, delivered, exited>>
    /\ lastOp' = NoOp
    /\ UNCHANGED clientVars

\* h.mu.Lock() at the head of sendOnlineUsers
HubSendOnlineUsersLock ==
    /\ hubPc = "sendOnlineUsers"
    /\ ~mu
    /\ mu' = TRUE
    /\ hubPc' = "notify"
    /\ UNCHANGED <<currentHub, hubReq>>
    /\ UNCHANGED <<clients, pc, UserID, connClosed, peerGone, readErr, unregSends,
                   msgPc, message, stored, started, delivered, exited>>
    /\ lastOp' = NoOp
    /\ mapAccess' = <<>>
    /\ UNCHANGED clientVars

\* the body of sendOnlineUsers with its deferred Unlock, then the log line of the
\* case with its len(h.clients), and the loop is back at its select
HubSendOnlineUsers ==
    /\ hubPc = "notify"
    /\ mu' = FALSE
    /\ hubPc' = "select"
    /\ hubReq' = NoReq
    /\ lastOp' = NoOp
    /\ mapAccess' = SendOnlineUsersAccesses \o <<MapAccess("len", FALSE)>>
    /\ UNCHANGED currentHub
    /\ UNCHANGED <<clients, pc, UserID, connClosed, peerGone, readErr, unregSends,
                   msgPc, message, stored, started, delivered, exited>>
    /\ UNCHANGED clientVars

\* the WriteMessage of the broadcast case, after the Unlock
HubWrite ==
    /\ hubPc = "write"
    /\ LET w == <<WriteCall(hubReq.receiverClient,
                            WebSocketMessage("newMessage", message[hubReq.arg]))>>
       IN  delivered' = delivered \o Delivered(w, message[hubReq.arg].ID)
    /\ lastOp' = NoOp
    /\ hubPc' = "select"
    /\ hubReq' = NoReq
    /\ mapAccess' = <<>>
    /\ UNCHANGED <<currentHub, mu>>
    /\ UNCHANGED <<clients, pc, UserID, connClosed, peerGone, readErr, unregSends,
                   msgPc, message, stored, started, exited>>
    /\ UNCHANGED clientVars

\* a step of the hub goroutine
HubStep ==
    \/ \E c \in HubConns : HubReceiveRegister(c)
    \/ \E c \in HubConns : HubReceiveUnregister(c)
    \/ \E i \in SeqMsgIds : HubReceiveBroadcast(i)
    \/ HubLock
    \/ HubLockedSection
    \/ HubSendOnlineUsersLock
    \/ HubSendOnlineUsers
    \/ HubWrite

NextHub ==
    \/ InitWebSocketHub
    \/ \E i \in SeqMsgIds : EmitNewMessage(i)
    \/ currentHub = "hub" /\ \E c \in HubConns : WebSocketHandler(c)
    \/ \E c \in HubConns : PeerClose(c)
    \/ \E c \in HubConns : ReadMessage(c)
    \/ \E c \in HubConns : ConnClose(c)
    \/ \E c \in HubConns : HubReceiveRegister(c)
    \/ \E c \in HubConns : HubReceiveUnregister(c)
    \/ \E i \in SeqMsgIds : HubReceiveBroadcast(i)
    \/ HubLock
    \/ HubLockedSection
    \/ HubSendOnlineUsersLock
    \/ HubSendOnlineUsers
    \/ HubWrite

SpecHub == InitHub /\ [][NextHub]_vars

\* the hub goroutine is scheduled, and its select takes a request that stays pending
LiveHub ==
    /\ SpecHub
    /\ WF_vars(HubLock \/ HubLockedSection \/ HubSendOnlineUsersLock
                   \/ HubSendOnlineUsers \/ HubWrite)
    /\ \A c \in HubConns : WF_vars(HubReceiveRegister(c))
    /\ \A c \in HubConns : WF_vars(HubReceiveUnregister(c))
    /\ \A i \in SeqMsgIds : WF_vars(HubReceiveBroadcast(i))

\* ------------------------------------------- the browser side: useAuthStore
\* the server side, which no step of the stores changes
serverVars == <<clients, pc, UserID, connClosed, peerGone, readErr, unregSends,
                msgPc, message, stored, started, delivered, exited, mapAccess, lastOp,
                hubVars>>

\* new WebSocket(WS_URL): the next object the browser creates
NewSocket == CHOOSE s \in Sockets :
                 readyState[s] = "none" /\ \A t \in Sockets : t < s => readyState[t] # "none"

\* connectSocket, called with authUser already set to user
connectSocket(user) ==
    IF user = NoUser \/ (socket # NoSocket /\ readyState[socket] = "OPEN")
    THEN UNCHANGED <<socket, readyState>>
    ELSE /\ \E s \in Sockets : readyState[s] = "none"
         /\ readyState' = [readyState EXCEPT ![NewSocket] = "CONNECTING"]
         /\ socket' = NewSocket

\* disconnectSocket
disconnectSocket ==
    /\ readyState' = IF socket # NoSocket /\ readyState[socket] = "OPEN"
                     THEN [readyState EXCEPT ![socket] = "CLOSING"]
                     ELSE readyState
    /\ socket' = NoSocket
    /\ onlineUsers' = <<>>

\* checkAuth after its request has returned
checkAuth(ok, user) ==
    /\ IF ok
       THEN /\ authUser' = user
            /\ connectSocket(user)
       ELSE /\ authUser' = NoUser
            /\ UNCHANGED <<socket, readyState>>
    /\ UNCHANGED <<onlineUsers, listeners, selectedUser, messageHandler, messages>>
    /\ UNCHANGED serverVars

\* signup after its request has returned
signup(ok, user) ==
    /\ IF ok
       THEN /\ authUser' = user
            /\ connectSocket(user)
       ELSE UNCHANGED <<authUser, socket, readyState>>
    /\ UNCHANGED <<onlineUsers, listeners, selectedUser, messageHandler, messages>>
    /\ UNCHANGED serverVars

\* login after its request has returned
login(ok, user) ==
    /\ IF ok
       THEN /\ authUser' = user
            /\ connectSocket(user)
       ELSE UNCHANGED <<authUser, socket, readyState>>
    /\ UNCHANGED <<onlineUsers, listeners, selectedUser, messageHandler, messages>>
    /\ UNCHANGED serverVars

\* logout after its request has returned
logout(ok) ==
    /\ IF ok
       THEN /\ authUser' = NoUser
            /\ disconnectSocket
       ELSE UNCHANGED <<authUser, socket, readyState, onlineUsers>>
    /\ UNCHANGED <<listeners, selectedUser, messageHandler, messages>>
    /\ UNCHANGED serverVars

\* the open event of a WebSocket: socket.onopen logs
onopen(s) ==
    /\ readyState[s] = "CONNECTING"
    /\ readyState' = [readyState EXCEPT ![s] = "OPEN"]
    /\ UNCHANGED <<authUser, socket, onlineUsers, listeners, selectedUser,
                   messageHandler, messages>>
    /\ UNCHANGED serverVars

\* the close event of a WebSocket (a failed connection, a close by the server or
\* the end of a close the store asked for): socket.onclose clears the store
onclose(s) ==
    /\ readyState[s] \in {"CONNECTING", "OPEN", "CLOSING"}
    /\ readyState' = [readyState EXCEPT ![s] = "CLOSED"]
    /\ socket' = NoSocket
    /\ onlineUsers' = <<>>
    /\ UNCHANGED <<authUser, listeners, selectedUser, messageHandler, messages>>
    /\ UNCHANGED serverVars

\* a getOnlineUsers event on a WebSocket: socket.onmessage stores its payload
onmessageOnlineUsers(s, payload) ==
    /\ readyState[s] = "OPEN"
    /\ onlineUsers' = payload
    /\ UNCHANGED <<authUser, socket, readyState, listeners, selectedUser,
                   messageHandler, messages>>
    /\ UNCHANGED serverVars

\* ------------------------------------------- the browser side: useChatStore
setSelectedUser(user) ==
    /\ selectedUser' = user
    /\ UNCHANGED <<authUser, socket, onlineUsers, readyState, listeners,
                   messageHandler, messages>>
    /\ UNCHANGED serverVars

\* the function object a call of subscribeToMessages creates
NewHandler == CHOOSE h \in Handlers :
                  LET free(x) == x # messageHandler /\ \A s \in Sockets : x \notin listeners[s]
                  IN  free(h) /\ \A g \in Handlers : g < h => ~free(g)

\* subscribeToMessages
subscribeToMessages ==
    IF selectedUser = NoUser \/ socket = NoSocket \/ readyState[socket] # "OPEN"
    THEN UNCHANGED vars
    ELSE /\ \E h \in Handlers :
               h # messageHandler /\ \A s \in Sockets : h \notin listeners[s]
         /\ listeners' = [listeners EXCEPT ![socket] = @ \cup {NewHandler}]
         /\ messageHandler' = NewHandler
         /\ UNCHANGED <<authUser, socket, onlineUsers, readyState, selectedUser, messages>>
         /\ UNCHANGED serverVars

\* unsubscribeFromMessages
unsubscribeFromMessages ==
    IF socket # NoSocket /\ messageHandler # NoHandler
    THEN /\ listeners' = [listeners EXCEPT ![socket] = @ \ {messageHandler}]
         /\ messageHandler' = NoHandler
         /\ UNCHANGED <<authUser, socket, onlineUsers, readyState, selectedUser, messages>>
         /\ UNCHANGED serverVars
    ELSE UNCHANGED vars

\* the events appended so far, and the id of the next one the server pushes
EventsSeen == {messages[k] : k \in DOMAIN messages}
NextEvent == Cardinality(EventsSeen) + 1

\* isMessageForCurrentChat of addMessage, for a message pushed to the user
isMessageForCurrentChat(sender) ==
    selectedUser # NoUser /\ authUser # NoUser /\ sender = selectedUser

RECURSIVE Repeat(_, _)
Repeat(x, n) == IF n = 0 THEN <<>> ELSE <<x>> \o Repeat(x, n - 1)

\* a newMessage event on a WebSocket: every message listener the chat store added
\* to it runs addMessage on the event
onmessageNewMessage(s, sender) ==
    /\ readyState[s] = "OPEN"
    /\ NextEvent <= MaxEvents
    /\ messages' = IF isMessageForCurrentChat(sender)
                   THEN messages \o Repeat(NextEvent, Cardinality(listeners[s]))
                   ELSE messages
    /\ UNCHANGED <<authUser, socket, onlineUsers, readyState, listeners, selectedUser,
                   messageHandler>>
    /\ UNCHANGED serverVars

NextClient ==
    \/ \E ok \in BOOLEAN, user \in Identities : checkAuth(ok, user)
    \/ \E ok \in BOOLEAN, user \in Identities : signup(ok, user)
    \/ \E ok \in BOOLEAN, user \in Identities : login(ok, user)
    \/ \E ok \in BOOLEAN : logout(ok)
    \/ \E s \in Sockets : onopen(s)
    \/ \E s \in Sockets : onclose(s)
    \/ \E s \in Sockets : onmessageOnlineUsers(s, <<"1">>)
    \/ \E user \in Identities \cup {NoUser} : setSelectedUser(user)
    \/ subscribeToMessages
    \/ unsubscribeFromMessages
    \/ \E s \in Sockets, sender \in Identities : onmessageNewMessage(s, sender)

SpecClient == Init /\ [][NextClient]_vars

\* ======================================================================
\* Properties
\* ======================================================================
\* the WriteMessage calls the hub step made on connection c
WritesTo(c) == {k \in DOMAIN lastOp.writes : lastOp.writes[k].conn = c}

Healthy(c) == ~connClosed[c] /\ ~peerGone[c]

IsPresenceOp == lastOp.case \in {"register", "unregister"}

\* C1: after any sequence of register and unregister requests (a repeated register
\* for one identity included) the directory holds at most one entry, hence one
\* connection, per identity.
OneConnectionPerIdentity ==
    \A e1 \in clients, e2 \in clients : e1[1] = e2[1] => e1 = e2

\* a register for an identity that was already in the directory has been processed
C1_Witness ==
    /\ lastOp.case = "register"
    /\ MapHas(lastOp.pre, UserID[lastOp.arg])
    /\ Cardinality({e \in clients : e[1] = UserID[lastOp.arg]}) = 1
    /\ Cardinality(clients) = 2

\* C2: when a register replaces the entry of an identity, the replaced connection
\* has been closed by the time the register case ends.
ReplacedConnectionClosed ==
    lastOp.case = "register" =>
        \A e \in lastOp.pre : e[1] = UserID[lastOp.arg] => connClosed[e[2]]

\* C3: a message whose receiver is in the directory when the hub takes it leads to
\* exactly one WriteMessage call, made on the receiver's connection and on no
\* other, carrying the newMessage event whose payload is the message itself; the
\* call succeeds when that channel is healthy.
DeliverOnlineWritesOnce ==
    (lastOp.case = "broadcast" /\ MapHas(lastOp.pre, message[lastOp.arg].ReceiverID)) =>
        /\ Len(lastOp.writes) = 1
        /\ <<message[lastOp.arg].ReceiverID, lastOp.writes[1].conn>> \in lastOp.pre
        /\ lastOp.writes[1].msg.Event = "newMessage"
        /\ lastOp.writes[1].msg.Payload = message[lastOp.arg]
        /\ lastOp.writes[1].msg.Payload \in stored
        /\ Healthy(lastOp.writes[1].conn) => lastOp.writes[1].ok

\* a message was written to its receiver while another identity was online too
C3_Witness ==
    /\ lastOp.case = "broadcast"
    /\ Len(lastOp.writes) = 1
    /\ lastOp.writes[1].ok
    /\ Cardinality(clients) = 2

\* C4: a message whose receiver is not in the directory is dropped: the request
\* still completes, no WriteMessage call is made, nothing is closed and the
\* directory is as before, without an entry for the receiver.
DeliverOfflineNoEffect ==
    (lastOp.case = "broadcast" /\ ~MapHas(lastOp.pre, message[lastOp.arg].ReceiverID)) =>
        /\ lastOp.writes = <<>>
        /\ lastOp.closed = {}
        /\ clients = lastOp.pre
        /\ ~MapHas(clients, message[lastOp.arg].ReceiverID)
        /\ msgPc[lastOp.arg] = "created"

\* a message for an offline receiver was processed while somebody else was online
C4_Witness ==
    /\ lastOp.case = "broadcast"
    /\ ~MapHas(lastOp.pre, message[lastOp.arg].ReceiverID)
    /\ \E e \in clients : Healthy(e[2])

\* C5: a processed register of a connection of identity X makes exactly one
\* WriteMessage call on every other connection in the directory, carrying a
\* getOnlineUsers event whose list contains X; the call succeeds on a healthy
\* channel.
RegisterNotifiesOthers ==
    lastOp.case = "register" =>
        \A e \in clients : e[2] # lastOp.arg =>
            /\ Cardinality(WritesTo(e[2])) = 1
            /\ \A k \in WritesTo(e[2]) :
                  /\ lastOp.writes[k].msg.Event = "getOnlineUsers"
                  /\ Hex(UserID[lastOp.arg]) \in DOMAIN lastOp.writes[k].msg.Payload
                  /\ Healthy(e[2]) => lastOp.writes[k].ok

\* a new identity registered while a healthy connection of another one was online
C5_Witness ==
    /\ lastOp.case = "register"
    /\ ~MapHas(lastOp.pre, UserID[lastOp.arg])
    /\ \E e \in clients : e[2] # lastOp.arg /\ Healthy(e[2])

\* C6: a processed unregister of an identity X that was in the directory makes
\* exactly one WriteMessage call on every connection that remains, and on no
\* other, carrying a getOnlineUsers event whose list does not contain X.
UnregisterNotifiesRemaining ==
    (lastOp.case = "unregister" /\ MapHas(lastOp.pre, UserID[lastOp.arg])) =>
        /\ Len(lastOp.writes) = Cardinality(clients)
        /\ \A e \in clients :
              /\ Cardinality(WritesTo(e[2])) = 1
              /\ \A k \in WritesTo(e[2]) :
                    /\ lastOp.writes[k].msg.Event = "getOnlineUsers"
                    /\ Hex(UserID[lastOp.arg]) \notin DOMAIN lastOp.writes[k].msg.Payload
                    /\ Healthy(e[2]) => lastOp.writes[k].ok

\* an identity left while a healthy connection of another one stayed online
C6_Witness ==
    /\ lastOp.case = "unregister"
    /\ MapHas(lastOp.pre, UserID[lastOp.arg])
    /\ \E e \in clients : Healthy(e[2])

\* C7: an unregister for an identity that is not in the directory is a no-op: the
\* directory is unchanged, the hub closes nothing and sends no event.
UnregisterAbsentIsNoOp ==
    (lastOp.case = "unregister" /\ ~MapHas(lastOp.pre, UserID[lastOp.arg])) =>
        /\ clients = lastOp.pre
        /\ lastOp.closed = {}
        /\ lastOp.writes = <<>>

\* C8: a read goroutine sends on hub.unregister at most once, only after a
\* ReadMessage error, and then only closes its connection and ends: the hub loop
\* can always take the pending request and nothing blocks the close after it;
\* while its reads succeed it sends nothing, and a successful read changes
\* nothing but the goroutine's own err.
ReadLoopInv ==
    \A c \in Conns :
        /\ unregSends[c] <= 1
        /\ unregSends[c] = 1 <=> pc[c] \in {"unregister", "close", "done"}
        /\ unregSends[c] = 1 => (readErr[c] = "err" /\ (peerGone[c] \/ connClosed[c]))
        /\ readErr[c] = "nil" => (pc[c] = "read" /\ unregSends[c] = 0)
        /\ pc[c] = "unregister" => ENABLED UnregisterCase(c)
        /\ pc[c] = "close" => ENABLED ConnClose(c)

\* C8 (continued): ReadLoopInv in every state, and a successful read leaves the hub,
\* the connections and the message requests as they were
ReadLoopUnregistersOnce ==
    /\ []ReadLoopInv
    /\ [][\A c \in Conns :
            (ReadMessage(c) /\ readErr'[c] = "nil") =>
                UNCHANGED <<clients, pc, UserID, connClosed, peerGone, unregSends,
                            msgPc, message, stored>>]_vars

\* a read goroutine ended after its reads had failed, its connection closed
C8_Witness ==
    \E c \in Conns : pc[c] = "done" /\ unregSends[c] = 1 /\ connClosed[c]

\* C9: a connection on which a write failed is removed from the directory by the
\* hub step that made the write, also while its read goroutine has seen no error.
WriteFailureUnregisters ==
    \A k \in DOMAIN lastOp.writes :
        (~lastOp.writes[k].ok /\ pc[lastOp.writes[k].conn] = "read") =>
            lastOp.writes[k].conn \notin MapValues(clients)

\* C10: in a presence broadcast in which a write failed, every connection in the
\* directory still got its one WriteMessage call, all calls carry the same
\* getOnlineUsers event, and the calls on healthy channels succeeded.
BroadcastSurvivesWriteFailure ==
    (IsPresenceOp /\ \E k \in DOMAIN lastOp.writes : ~lastOp.writes[k].ok) =>
        /\ \A e \in clients :
              /\ Cardinality(WritesTo(e[2])) = 1
              /\ \A k \in WritesTo(e[2]) : Healthy(e[2]) => lastOp.writes[k].ok
        /\ \A j \in DOMAIN lastOp.writes, k \in DOMAIN lastOp.writes :
              lastOp.writes[j].msg = lastOp.writes[k].msg
        /\ \A k \in DOMAIN lastOp.writes : lastOp.writes[k].msg.Event = "getOnlineUsers"

\* a presence broadcast in which one write failed and another succeeded
C10_Witness ==
    /\ IsPresenceOp
    /\ \E j \in DOMAIN lastOp.writes, k \in DOMAIN lastOp.writes :
          ~lastOp.writes[j].ok /\ lastOp.writes[k].ok

\* C11: under fair scheduling of the hub loop and the read goroutines, a connection
\* in the directory whose channel is broken is eventually out of the directory; a
\* connection whose read goroutine has gone through its unregister is never in the
\* directory again, and an identity that is absent comes back only by a register
\* case for that identity.
BrokenConnectionRemoved ==
    /\ \A c \in Conns :
          (c \in MapValues(clients) /\ peerGone[c]) ~> (c \notin MapValues(clients))
    /\ [](\A c \in Conns : pc[c] \in {"close", "done"} => c \notin MapValues(clients))
    /\ [][\A u \in Identities :
            (~MapHas(clients, u) /\ MapHas(clients', u)) =>
                \E c \in Conns : RegisterCase(c) /\ UserID[c] = u]_vars

\* the unregister of a registered connection with a broken channel removed its entry
C11_Witness ==
    /\ lastOp.case = "unregister"
    /\ peerGone[lastOp.arg]
    /\ <<UserID[lastOp.arg], lastOp.arg>> \in lastOp.pre
    /\ lastOp.arg \notin MapValues(clients)

\* C12: a failure of one connection stays with that connection: the unregister that
\* follows a read failure or close of connection c removes no directory entry of
\* another connection (a newer connection of the same identity included) and closes
\* no other connection, and a hub step in which a write failed removes and closes
\* nothing on account of it.
FailureScopedToConnection ==
    /\ lastOp.case = "unregister" =>
          /\ \A e \in lastOp.pre : e[2] # lastOp.arg => e \in clients
          /\ lastOp.closed \subseteq {lastOp.arg}
    /\ (lastOp.case = "register" /\ \E k \in DOMAIN lastOp.writes : ~lastOp.writes[k].ok) =>
          /\ \A e \in lastOp.pre : e[1] # UserID[lastOp.arg] => e \in clients
          /\ lastOp.closed = {}

\* C13: with sequential calls (message i + 1 is sent after the call for message i
\* has returned), two messages of one sender to one receiver that were both written
\* to the receiver were written in the order of the calls.
DeliverInOrder ==
    \A j \in DOMAIN delivered, k \in DOMAIN delivered :
        (/\ j < k
         /\ message[delivered[j].id].SenderID = message[delivered[k].id].SenderID
         /\ message[delivered[j].id].ReceiverID = message[delivered[k].id].ReceiverID)
            => delivered[j].id < delivered[k].id

\* two messages of one sender to one receiver were both written
C13_Witness ==
    /\ Len(delivered) = 2
    /\ delivered[1].id # delivered[2].id
    /\ message[delivered[1].id].SenderID = message[delivered[2].id].SenderID
    /\ message[delivered[1].id].ReceiverID = message[delivered[2].id].ReceiverID

\* C14: a message is handed to the hub only after its insert succeeded and as the
\* stored record: a request that is at or past its EmitNewMessage holds a stored
\* message, the broadcast case writes that record, and a request answered 400 or
\* 500 (a failed insert included) built no message for the hub and none of its
\* messages was ever written.
StoreThenPush ==
    /\ \A i \in DOMAIN msgPc :
          /\ msgPc[i] \in {"emit", "created"} => message[i] \in stored
          /\ msgPc[i] \in {"new", "status400", "status500"} => message[i] = <<>>
    /\ lastOp.case = "broadcast" =>
          \A k \in DOMAIN lastOp.writes :
              /\ lastOp.writes[k].msg.Payload \in stored
              /\ lastOp.writes[k].msg.Payload.ID = lastOp.arg
    /\ \A k \in DOMAIN delivered : msgPc[delivered[k].id] = "created"
    /\ \A m \in stored : \E i \in DOMAIN msgPc : message[i] = m

\* the hub wrote a message that is in the messages collection
C14_Witness ==
    /\ lastOp.case = "broadcast"
    /\ lastOp.writes # <<>>
    /\ message[lastOp.arg] \in stored
    /\ lastOp.writes[1].msg.Payload = message[lastOp.arg]

\* C15: once the insert succeeded the only answer of SendMessage is 201 with the
\* created message: the request waits for the hub, the hub always takes it, and it
\* is answered 201 by the step in which the hub handled the message, also when the
\* receiver was offline or the write failed.
PushFailureNotSurfaced ==
    /\ \A i \in DOMAIN msgPc :
          message[i] \in stored =>
              /\ msgPc[i] \in {"emit", "created"}
              /\ msgPc[i] = "emit" => ENABLED BroadcastCase(i)
    /\ lastOp.case = "broadcast" =>
          /\ msgPc[lastOp.arg] = "created"
          /\ message[lastOp.arg] \in stored

\* a message whose write failed, or whose receiver was offline, was answered 201
C15_Witness ==
    /\ lastOp.case = "broadcast"
    /\ \A k \in DOMAIN lastOp.writes : ~lastOp.writes[k].ok
    /\ msgPc[lastOp.arg] = "created"

\* no step of the handler, of a read goroutine or of the hub is left for request c
Terminal(c) ==
    ~ENABLED (\/ WebSocketHandler(c) \/ PeerClose(c) \/ ReadMessage(c)
              \/ ConnClose(c) \/ RegisterCase(c) \/ UnregisterCase(c))

\* request c made no connection: nothing was upgraded, sent to the hub or started
NoConnection(c) ==
    /\ UserID[c] = NoUser
    /\ started[c] = [registers |-> 0, readLoops |-> 0]
    /\ c \notin MapValues(clients)
    /\ ~connClosed[c] /\ ~peerGone[c]
    /\ readErr[c] = "none" /\ unregSends[c] = 0

\* C16: the handler on a request without a verified identity answers 401 whatever
\* the upgrade would have done, and changes nothing else: the directory is as it
\* was, and the request has no connection, no register and no read goroutine, then
\* and ever after.
UnverifiedRejected ==
    /\ [][\A c \in Conns, upgradeOk \in BOOLEAN :
            WebSocketHandlerOn(c, NoUser, upgradeOk) =>
                /\ pc'[c] = "unauthorized"
                /\ UNCHANGED <<clients, UserID, started, connClosed, peerGone,
                               readErr, unregSends>>]_vars
    /\ [](\A c \in Conns : pc[c] = "unauthorized" => NoConnection(c) /\ Terminal(c))

\* a request was answered 401 while the directory held a connection
C16_Witness ==
    \E c \in Conns : pc[c] = "unauthorized" /\ clients # {}

\* C17: the handler on a request whose upgrade fails answers with an error and
\* changes nothing else: no register is sent, no read goroutine started, the
\* directory is as it was; no step is left for the request (no retry).
UpgradeFailureTerminal ==
    /\ [][\A c \in Conns, user \in Identities :
            WebSocketHandlerOn(c, user, FALSE) =>
                /\ pc'[c] = "upgradeFailed"
                /\ UNCHANGED <<clients, UserID, started, connClosed, peerGone,
                               readErr, unregSends>>]_vars
    /\ [](\A c \in Conns : pc[c] = "upgradeFailed" => NoConnection(c) /\ Terminal(c))

\* an upgrade failed while the directory held a connection
C17_Witness ==
    \E c \in Conns : pc[c] = "upgradeFailed" /\ clients # {}

\* C18: the handler on a request with a verified identity whose upgrade succeeds
\* builds the connection for that identity and sends it on hub.register once; the
\* hub can always take that send, the read goroutine is started once, when the send
\* was taken, and never again; the register case enters the connection under its
\* identity. A request without a successful upgrade sends and starts nothing.
AcceptRegistersOnce ==
    /\ [][\A c \in Conns, user \in Identities :
            WebSocketHandlerOn(c, user, TRUE) =>
                /\ pc'[c] = "register"
                /\ UserID'[c] = user
                /\ started'[c] = [registers |-> 1, readLoops |-> 0]]_vars
    /\ [](\A c \in Conns :
            IF pc[c] \in {"new", "unauthorized", "upgradeFailed"}
            THEN started[c] = [registers |-> 0, readLoops |-> 0]
            ELSE /\ UserID[c] \in Identities
                 /\ started[c].registers = 1
                 /\ started[c].readLoops = IF pc[c] = "register" THEN 0 ELSE 1
                 /\ pc[c] = "register" => ENABLED RegisterCase(c))
    /\ [](lastOp.case = "register" =>
            /\ <<UserID[lastOp.arg], lastOp.arg>> \in clients
            /\ pc[lastOp.arg] = "read")

\* a connection was registered once and its read goroutine runs
C18_Witness ==
    \E c \in Conns :
        /\ pc[c] = "read"
        /\ started[c] = [registers |-> 1, readLoops |-> 1]
        /\ <<UserID[c], c>> \in clients

\* the requests that sent a connection to the hub
Registering == {c \in Conns : pc[c] \notin {"new", "unauthorized", "upgradeFailed"}}

\* the number of identifiers in a presence list
ListSize(payload) ==
    LET RECURSIVE Sum(_)
        Sum(S) == IF S = {} THEN 0
                  ELSE LET h == CHOOSE x \in S : TRUE IN payload[h] + Sum(S \ {h})
    IN  Sum(DOMAIN payload)

\* C19: when the hub has processed the registers of N connections of N distinct
\* identities, sent in any order, and nothing else, the directory holds exactly
\* these N connections, and the last register wrote one list of N identifiers to
\* each of them, which reached every connection whose channel is healthy.
ConcurrentRegistersAllListed ==
    (/\ lastOp.case = "register"
     /\ \A c \in Registering : pc[c] \in {"read", "unregister"}
     /\ Cardinality({UserID[c] : c \in Registering}) = Cardinality(Registering))
        => /\ Cardinality(clients) = Cardinality(Registering)
           /\ MapValues(clients) = Registering
           /\ \A c \in Registering :
                 /\ Cardinality(WritesTo(c)) = 1
                 /\ \A k \in WritesTo(c) :
                       /\ lastOp.writes[k].msg.Event = "getOnlineUsers"
                       /\ ListSize(lastOp.writes[k].msg.Payload) = Cardinality(Registering)
                       /\ Cardinality(DOMAIN lastOp.writes[k].msg.Payload)
                              = Cardinality(Registering)
                       /\ Healthy(c) => lastOp.writes[k].ok

\* all connections that can have distinct identities were registered, the last one
\* after the others, and all got the list
C19_Witness ==
    /\ lastOp.case = "register"
    /\ Cardinality(Registering) = NumUsers
    /\ Cardinality({UserID[c] : c \in Registering}) = NumUsers
    /\ \A c \in Registering : pc[c] = "read" /\ Healthy(c)
    /\ \A c \in Registering : \E k \in WritesTo(c) : lastOp.writes[k].ok

\* the identifiers of the identities in the directory m, each once
ListOf(m) == [h \in {Hex(e[1]) : e \in m} |-> 1]

\* C20: (1) when B registers while A alone is in the directory, the register case
\* writes the list {A, B} once to A and once to B, the newcomer; (2) a message of A
\* to B handled while both are in the directory is written once, as a newMessage
\* event, to the connection of B and to no other; (3) when the connection of B
\* unregisters, B leaves the directory and the list {A} is written once to A. A
\* write reaches a connection whose channel is healthy.
PresenceScenario ==
    /\ (/\ lastOp.case = "register"
        /\ Cardinality(lastOp.pre) = 1
        /\ Cardinality(clients) = 2)
           => \A e \in clients :
                 /\ Cardinality(WritesTo(e[2])) = 1
                 /\ \A k \in WritesTo(e[2]) :
                       /\ lastOp.writes[k].msg = WebSocketMessage("getOnlineUsers",
                                                                  ListOf(clients))
                       /\ Healthy(e[2]) => lastOp.writes[k].ok
    /\ (/\ lastOp.case = "broadcast"
        /\ message[lastOp.arg].SenderID # message[lastOp.arg].ReceiverID
        /\ MapHas(clients, message[lastOp.arg].SenderID)
        /\ MapHas(clients, message[lastOp.arg].ReceiverID))
           => LET b == MapGet(clients, message[lastOp.arg].ReceiverID)
              IN  /\ Len(lastOp.writes) = 1
                  /\ lastOp.writes[1].conn = b
                  /\ lastOp.writes[1].msg = WebSocketMessage("newMessage",
                                                             message[lastOp.arg])
                  /\ Healthy(b) => lastOp.writes[1].ok
                  /\ clients = lastOp.pre
    /\ (/\ lastOp.case = "unregister"
        /\ Cardinality(lastOp.pre) = 2
        /\ <<UserID[lastOp.arg], lastOp.arg>> \in lastOp.pre)
           => /\ clients = lastOp.pre \ {<<UserID[lastOp.arg], lastOp.arg>>}
              /\ \A e \in clients :
                    /\ Cardinality(WritesTo(e[2])) = 1
                    /\ \A k \in WritesTo(e[2]) :
                          /\ lastOp.writes[k].msg =
                                 WebSocketMessage("getOnlineUsers",
                                                  [h \in {Hex(e[1])} |-> 1])
                          /\ Healthy(e[2]) => lastOp.writes[k].ok
              /\ Len(lastOp.writes) = 1

\* the end of the scenario: a message was written to the connection of B, B then
\* unregistered, and A, still healthy, got the list {A}
C20_Witness ==
    /\ lastOp.case = "unregister"
    /\ Cardinality(lastOp.pre) = 2
    /\ <<UserID[lastOp.arg], lastOp.arg>> \in lastOp.pre
    /\ \E k \in DOMAIN delivered :
          /\ delivered[k].conn = lastOp.arg
          /\ message[delivered[k].id].SenderID # UserID[lastOp.arg]
    /\ Len(lastOp.writes) = 1 /\ lastOp.writes[1].ok

\* the directory entries of identity u
EntriesOf(m, u) == {e \in m : e[1] = u}

\* C21 (as stated): the entries of an identity change in two ways only: from none
\* to one by a register case of that identity, and from one to none by an
\* unregister case of that identity; an identity that is online never gets
\* another connection.
PresenceTwoTransitions ==
    [][\A u \in Identities :
          EntriesOf(clients', u) # EntriesOf(clients, u) =>
              \/ /\ ~MapHas(clients, u) /\ MapHas(clients', u)
                 /\ \E c \in Conns : RegisterCase(c) /\ UserID[c] = u
              \/ /\ MapHas(clients, u) /\ ~MapHas(clients', u)
                 /\ \E c \in Conns : UnregisterCase(c) /\ UserID[c] = u]_vars

\* C21 (amended): an identity goes from absent to online by a register case of that
\* identity only and from online to absent by an unregister case of that identity
\* only; the connection of an online identity changes by a register case of that
\* identity only, which leaves it online with the new connection; the broadcast
\* case changes no entry.
PresenceTransitions ==
    [][\A u \in Identities :
          EntriesOf(clients', u) # EntriesOf(clients, u) =>
              \/ /\ ~MapHas(clients, u) /\ MapHas(clients', u)
                 /\ \E c \in Conns : RegisterCase(c) /\ UserID[c] = u
              \/ /\ MapHas(clients, u) /\ ~MapHas(clients', u)
                 /\ \E c \in Conns : UnregisterCase(c) /\ UserID[c] = u
              \/ /\ MapHas(clients, u) /\ MapHas(clients', u)
                 /\ \E c \in Conns : /\ RegisterCase(c) /\ UserID[c] = u
                                      /\ EntriesOf(clients', u) = {<<u, c>>}]_vars

\* a register replaced the connection of an identity that was online
C21_Witness ==
    /\ lastOp.case = "register"
    /\ MapHas(lastOp.pre, UserID[lastOp.arg])
    /\ MapGet(lastOp.pre, UserID[lastOp.arg]) # lastOp.arg
    /\ MapGet(clients, UserID[lastOp.arg]) = lastOp.arg

\* C22: the broadcast case leaves the directory as it was, whether the receiver
\* was absent, written to, or its write failed; the presence broadcast in a
\* register or unregister case changes nothing either, also when a write fails:
\* after the case the directory is the old one with the one assignment or the one
\* delete of the case; and no step other than these two cases changes it.
DirectoryMutatedByPresenceOnly ==
    /\ [](/\ lastOp.case = "broadcast" => clients = lastOp.pre
          /\ lastOp.case = "register" =>
                clients = MapSet(lastOp.pre, UserID[lastOp.arg], lastOp.arg)
          /\ lastOp.case = "unregister" =>
                clients = IF MapHas(lastOp.pre, UserID[lastOp.arg])
                          THEN MapDelete(lastOp.pre, UserID[lastOp.arg])
                          ELSE lastOp.pre)
    /\ [][clients' # clients =>
            \E c \in Conns : RegisterCase(c) \/ UnregisterCase(c)]_vars

\* a message was handled whose write failed while the directory was not empty
C22_Witness ==
    /\ lastOp.case = "broadcast"
    /\ lastOp.writes # <<>>
    /\ ~lastOp.writes[1].ok
    /\ clients = lastOp.pre

\* the presence broadcast of the hub step just taken is a snapshot of directory m:
\* every write carries the identifiers of the identities of m, each once, and the
\* connections written to are those of m, each once
SnapshotOf(m) ==
    /\ \A k \in DOMAIN lastOp.writes :
          lastOp.writes[k].msg = WebSocketMessage("getOnlineUsers", ListOf(m))
    /\ {lastOp.writes[k].conn : k \in DOMAIN lastOp.writes} = MapValues(m)
    /\ Len(lastOp.writes) = Cardinality(m)

\* C23: the presence broadcast of a register or unregister case is a snapshot of
\* the directory as that case left it, which is the directory until the next hub
\* case: no register or unregister takes effect between the building of the list
\* and the last write.
ConsistentSnapshot ==
    IsPresenceOp => SnapshotOf(clients)

\* a broadcast to two connections after a register or an unregister
C23_Witness ==
    /\ IsPresenceOp
    /\ Len(lastOp.writes) = 2
    /\ \E c \in Conns : pc[c] = "register"

\* C24: once main has returned after the shutdown signal, every connection that
\* was made by an upgrade has been closed by the program.
ShutdownClosesConnections ==
    exited => \A c \in Registering : connClosed[c]

\* a message with a text or with the URL of an image
HasContent(m) == m.Text # "" \/ m.Image # ""

RegisteredUnderAuthenticatedIdentity ==
    /\ [][\A c \in Conns, token \in Tokens(Identities),
             userFound \in BOOLEAN, upgradeOk \in BOOLEAN :
            (WebSocketRoute(c, token, userFound, upgradeOk) /\ pc'[c] = "register") =>
                /\ token.valid /\ userFound /\ upgradeOk
                /\ UserID'[c] = token.UserID]_vars
    /\ [][\A c \in Conns : UserID[c] # NoUser => UserID'[c] = UserID[c]]_vars
    /\ [](\A e \in clients : e[1] \in Identities /\ e[1] = UserID[e[2]])
    /\ [](\A c \in Conns : pc[c] \in {"new", "unauthorized", "upgradeFailed"} =>
            UserID[c] = NoUser /\ c \notin MapValues(clients))

\* connections of two users are in the directory, each under its own user's ID
C26_Witness ==
    /\ Cardinality(clients) = 2
    /\ \A e \in clients : e[1] = UserID[e[2]]
    /\ \E c \in Conns : pc[c] = "unauthorized"

\* C27: a connection that was registered, whose channel is open and whose read
\* goroutine runs is in the directory; and the unregister case of a connection
\* that is not the one stored for its identity removes nothing.
LiveConnectionsPresent ==
    /\ \A c \in Conns : (pc[c] = "read" /\ Healthy(c)) => c \in MapValues(clients)
    /\ (lastOp.case = "unregister"
            /\ <<UserID[lastOp.arg], lastOp.arg>> \notin lastOp.pre) =>
          clients = lastOp.pre

\* C28: the connection the unregister case closes is the one that was stored in the
\* entry it removes: every entry removed by the case held a connection in the set
\* closed by the case.
UnregisterClosesRemoved ==
    lastOp.case = "unregister" =>
        \A e \in lastOp.pre \ clients : e[2] \in lastOp.closed

\* C29: no connection in the directory is closed, by the hub or by its own read
\* goroutine, and no write of a hub case goes to a connection that the hub has
\* closed, in that case or before.
NoClosedConnectionInDirectory ==
    /\ \A e \in clients : ~connClosed[e[2]]
    /\ \A k \in DOMAIN lastOp.writes :
          /\ ~connClosed[lastOp.writes[k].conn]
          /\ lastOp.writes[k].conn \notin lastOp.closed

\* the hub closed a connection and wrote the list to the connections left
C29_Witness ==
    /\ lastOp.case = "unregister"
    /\ lastOp.closed # {}
    /\ lastOp.writes # <<>>
    /\ \E c \in Conns : pc[c] = "done"

\* the cases of the hub loop
HubCases == {"register", "unregister", "broadcast"}

\* C30: every WriteMessage call is made by a case of the hub loop: a step of an
\* upgrade handler, of a read goroutine or of SendMessage writes on no connection,
\* and a hub case writes at most once on a connection. The hub loop runs one case
\* at a time, so two writes on one connection never overlap.
WritesByHubLoopOnly ==
    /\ lastOp.case \notin HubCases => lastOp.writes = <<>>
    /\ \A j \in DOMAIN lastOp.writes, k \in DOMAIN lastOp.writes :
          lastOp.writes[j].conn = lastOp.writes[k].conn => j = k
    /\ lastOp.case = "broadcast" => Len(lastOp.writes) <= 1

\* the hub wrote a message while a register and an unregister were waiting for it
C30_Witness ==
    /\ lastOp.case = "broadcast"
    /\ lastOp.writes # <<>>
    /\ \E c \in Conns : pc[c] = "register"
    /\ \E c \in Conns : pc[c] = "unregister"

\* C31: every access to the map is made by the hub goroutine, in one of its three
\* cases: a step of an upgrade handler, of a read goroutine or of SendMessage with
\* its EmitNewMessage makes none. The accesses outside the lock are the len reads
\* of the log lines, made by the hub goroutine as well. One goroutine makes its
\* accesses one after another, so no two are concurrent.
MapAccessedByHubOnly ==
    /\ \A k \in DOMAIN mapAccess :
          /\ mapAccess[k].by = "hub"
          /\ ~mapAccess[k].locked => mapAccess[k].op = "len"
    /\ mapAccess # <<>> <=> lastOp.case \in HubCases
    /\ clients # lastOp.pre /\ lastOp.case \in HubCases =>
          \E k \in DOMAIN mapAccess : mapAccess[k].op \in {"store", "delete"}

\* the hub read the map size outside the lock while a handler was in its send
C31_Witness ==
    /\ \E k \in DOMAIN mapAccess : ~mapAccess[k].locked
    /\ \E c \in Conns : pc[c] = "register"
    /\ \E c \in Conns : pc[c] = "unregister"

\* C33: the read goroutine of a connection, the only sender of its unregister,
\* starts in the step in which the hub takes that connection's register, so the
\* hub has processed the register of a connection whenever that connection is
\* reading, sending its unregister or past it, and whenever the hub processes its
\* unregister.
RegisterBeforeUnregister ==
    /\ [][\A c \in Conns :
            started'[c].readLoops # started[c].readLoops =>
                /\ lastOp'.case = "register" /\ lastOp'.arg = c
                /\ pc[c] = "register" /\ pc'[c] = "read"]_vars
    /\ [](\A c \in Conns :
            /\ pc[c] \in {"read", "unregister", "close", "done"} =>
                  started[c].registers = 1 /\ started[c].readLoops = 1
            /\ unregSends[c] > 0 => started[c].readLoops = 1
            /\ pc[c] \in {"new", "register", "unauthorized", "upgradeFailed"} =>
                  unregSends[c] = 0 /\ started[c].readLoops = 0)
    /\ [](lastOp.case = "unregister" =>
            /\ started[lastOp.arg].readLoops = 1
            /\ unregSends[lastOp.arg] = 1)

\* the hub processed the unregister of a registered connection while the handler
\* of another one was still in its register send
C33_Witness ==
    /\ lastOp.case = "unregister"
    /\ started[lastOp.arg].readLoops = 1
    /\ \E c \in Conns : pc[c] = "register" /\ started[c].readLoops = 0

\* C32: the hub goroutine takes h.mu only when it does not hold it (a case has
\* released it before sendOnlineUsers takes it again), so past its select it always
\* has a next step; it makes no send on h.register, h.unregister or h.broadcast;
\* with WriteMessage calls that return it is back at its select after every
\* request, and every pending register, unregister and broadcast send is taken.
HubNeverSelfDeadlocks ==
    /\ [](hubPc \in {"lock", "sendOnlineUsers"} => ~mu)
    /\ [](mu => hubPc \in {"locked", "notify"})
    /\ [](hubPc \notin {"none", "select"} =>
            ENABLED (HubLock \/ HubLockedSection \/ HubSendOnlineUsersLock
                         \/ HubSendOnlineUsers \/ HubWrite))
    /\ [][hubPc' # hubPc /\ hubPc # "none" =>
            /\ \A c \in Conns :
                  /\ pc'[c] \in {"register", "unregister"} => pc'[c] = pc[c]
                  /\ started'[c].registers = started[c].registers
            /\ unregSends' = unregSends
            /\ \A i \in SeqMsgIds : msgPc'[i] = "emit" => msgPc[i] = "emit"]_vars
    /\ (hubPc \notin {"none", "select"}) ~> (hubPc = "select")
    /\ \A c \in HubConns : (pc[c] = "register") ~> (pc[c] # "register")
    /\ \A c \in HubConns : (pc[c] = "unregister") ~> (pc[c] # "unregister")
    /\ \A i \in SeqMsgIds : (msgPc[i] = "emit") ~> (msgPc[i] = "returned")

\* the hub has released the mutex and is about to take it again in
\* sendOnlineUsers, with an unregister send and a broadcast send pending
C32_Witness ==
    /\ hubPc = "sendOnlineUsers"
    /\ ~mu
    /\ \E c \in HubConns : pc[c] = "unregister"
    /\ \E i \in SeqMsgIds : msgPc[i] = "emit"

\* C34: a call of EmitNewMessage made while currentHub is nil returns in the same
\* step, through the log line, leaving the hub, the map, the connections and the
\* delivery log as they were, and its message is never written to a connection; a
\* call made after InitWebSocketHub stays in its send until the select of the hub
\* goroutine takes the message, which no step does while the hub goroutine is
\* inside an earlier case.
EmitBeforeAndAfterInit ==
    /\ [][\A i \in SeqMsgIds :
            msgPc[i] = "new" /\ msgPc'[i] # "new" =>
                IF currentHub = "nil"
                THEN /\ msgPc'[i] = "logged"
                     /\ UNCHANGED <<clients, pc, UserID, connClosed, peerGone, readErr,
                                    unregSends, stored, started, delivered, hubVars>>
                ELSE msgPc'[i] = "emit"]_vars
    /\ [][\A i \in SeqMsgIds :
            /\ msgPc[i] = "logged" => msgPc'[i] = "logged"
            /\ msgPc[i] = "emit" /\ msgPc'[i] # "emit" =>
                  /\ msgPc'[i] = "returned"
                  /\ hubPc = "select" /\ hubPc' = "lock"
                  /\ hubReq' = [case |-> "broadcast", arg |-> i]]_vars
    /\ [](\A i \in SeqMsgIds :
            /\ msgPc[i] = "logged" =>
                  /\ \A k \in DOMAIN delivered : delivered[k].id # i
                  /\ ~(hubReq.case = "broadcast" /\ hubReq.arg = i)
            /\ msgPc[i] = "emit" => currentHub = "hub"
            /\ msgPc[i] = "emit" /\ hubPc # "select" => ~ENABLED HubReceiveBroadcast(i)
            /\ msgPc[i] = "emit" /\ hubPc = "select" => ENABLED HubReceiveBroadcast(i))

\* the first call was made before InitWebSocketHub and has returned; the second
\* is in its send while the hub goroutine is inside the case of an earlier request
C34_Witness ==
    /\ msgPc[1] = "logged"
    /\ msgPc[2] = "emit"
    /\ hubPc \in {"lock", "locked", "sendOnlineUsers", "notify"}
    /\ hubReq.case = "register"

\* the WebSockets of the store that are connecting or open
LiveSockets == {s \in Sockets : readyState[s] \in {"CONNECTING", "OPEN"}}

\* C35: whatever checkAuth, login, signup, logout and the open and close events
\* have done, at most one WebSocket the store created is connecting or open, and
\* the socket field of the store is that WebSocket.
OneLiveSocket ==
    /\ Cardinality(LiveSockets) <= 1
    /\ \A s \in LiveSockets : socket = s

\* C36: on the one WebSocket of the store, open all along, the chat store has at
\* most one message listener attached, no newMessage event is in the message
\* list twice, and once unsubscribeFromMessages has cleared the remembered
\* handler no listener of the chat store is attached.
OneMessageHandler ==
    (/\ \A s \in Sockets : s # 1 => readyState[s] = "none"
     /\ readyState[1] = "OPEN"
     /\ socket = 1) =>
        /\ Cardinality(listeners[1]) <= 1
        /\ \A e \in EventsSeen : Cardinality({k \in DOMAIN messages : messages[k] = e}) = 1
        /\ messageHandler = NoHandler => listeners[1] = {}

====
